---- MODULE Spec2Model ----
(***************************************************************************)
(* A model of the FitAI backend handlers: weekly check-in macro updates,   *)
(* workout session completion and PR detection, the coach chat pipeline,   *)
(* third-party food normalisation and onboarding unit conversion.          *)
(*                                                                         *)
(* Each part of the backend has its own variables and its own              *)
(* specification (SpecCheckin, SpecPR, SpecPRSeq, ...); the variables of   *)
(* the other parts stay at their initial value in that specification.      *)
(*                                                                         *)
(* Conventions:                                                            *)
(*  - a Python Optional is a sequence of length <= 1: None == <<>>,        *)
(*    Some(x) == <<x>>;                                                    *)
(*  - a JSON number is carried in tenths (15 means 1.5), so that the       *)
(*    code's int(round(x)) is a real conversion.                           *)
(***************************************************************************)
EXTENDS Integers, Sequences, FiniteSets, TLC

VARIABLES
    \* ---- weekly check-in (routers/checkins.py)
    ckProfile,      \* Optional raw `macros` JSON of the user's profile row
    ckLog,          \* weekly_checkins rows, in insertion order
    ckStatus,       \* HTTP status of the last submit_checkin response (0: none yet)
    ckDetail,       \* detail of an HTTP 500 response: the call that raised
    ckWrites,       \* number of upserts of the profile's macros (its updated_at)
    ckN,            \* number of submit_checkin requests received so far
    ckPc,           \* position of the current submit_checkin request
    ckReq,          \* photos, photo_urls and photo_retention of the request
    ckMacro,        \* Optional macro_update of the request, once analysed
    ckPhotoRows,    \* urls of the user's progress_photos rows
    ckObjects,      \* paths of the objects in the progress-photos bucket
    ckDeletes,      \* deletions attempted by the request, in order
    \* ---- workout sessions and PRs (routers/workouts.py)
    sessStatus,     \* workout_sessions.status per session
    logs,           \* exercise_logs rows per session
    prs,            \* prs rows in insertion (recorded_at) order
    csPc,           \* position of each complete_session request
    csSession,      \* the session a request completes
    csBest,         \* best_by_exercise of a request, in dict insertion order
    csPrev,         \* previous_value read by the request's last lookup
    csLogged,       \* how many exercise_logs rows the request read
    csUpdates,      \* pr_updates of the request
    \* ---- third-party food lookups (routers/nutrition.py)
    fdResults,      \* normalized food records returned so far
    fdStatus,       \* HTTP status of the last food lookup (0: none yet)
    \* ---- onboarding (routers/onboarding.py)
    obInput,        \* the submitted form strings: <<feet, inches>> or <<pounds>>
    obStatus,       \* 0 until the form has been converted, then 200
    obHeight,       \* Optional height_cm of the profile row, in hundredths
    obWeight,       \* Optional weight_kg of the profile row, in hundredths
    \* ---- coach chat (routers/chat.py)
    chMsgs,         \* chat_messages rows of the thread, in created_at order
    chTouched,      \* number of _touch_thread updates of the chat_threads row
    chUser,         \* TRUE once _ensure_user_exists has upserted the users row
    chTemplates,    \* workout_templates rows written for the current request
    chUuid,         \* uuid4 values drawn for the current request
    chN,            \* number of POST /message requests received so far
    chContent,      \* payload.content of the current request
    chStream,       \* payload.stream of the current request
    chPc,           \* position of the current request's coroutine / generator
    chRunning,      \* executor tasks held by a worker thread
    chQueue,        \* executor tasks waiting for a worker, in submission order
    chFlags,        \* Optional result of moderation_future
    chRows,         \* Optional result of history_future
    chCtx,          \* TRUE once context_future has a result
    chSum,          \* TRUE once summary_future has a result
    chHistory,      \* `history` as spliced into `messages` for the model
    chProposal,     \* Optional proposal matched or inferred for a confirmation
    chCompletions,  \* chat completion calls made for the current request
    chEvents,       \* SSE events written to the current streaming response
    chStreamState,  \* "none", "open", or "closed" (generator returned or raised)
    chResp,         \* response of the current request (status 0: none yet)
    \* ---- accounts (routers/auth.py)
    auUsers,        \* users rows in insertion order
    auResp,         \* the last register/login request and its response
    \* ---- daily check-in and streak (routers/daily_checkin.py)
    dcRows,         \* daily_checkins rows, in insertion order
    dcToday,        \* the current UTC date, as a day number
    dcN,            \* number of daily check-ins submitted so far
    dcSaved,        \* the (user, date) pairs answered with streak_saved = true
    dcResp,         \* the last daily check-in request and its response
    \* ---- workout templates (routers/workouts.py)
    tpTemplates,    \* per template id: TRUE while its workout_templates row exists
    tpRows,         \* per template id: its workout_template_exercises rows, as inserted
    tpExercises,    \* names of the exercises rows; the id is the index
    tpGiven,        \* per template id: the list its last successful request was given
    tpResp,         \* the last template request and its response
    \* ---- exercise logging on older schemas (routers/workouts.py)
    lgSchema,       \* which columns and tables the deployed datastore has
    lgFormat,       \* how the deployed datastore words its errors
    lgN,            \* number of log_exercise requests received so far
    lgLogs,         \* exercise_logs rows, in insertion order
    lgSets,         \* exercise_sets rows, in insertion order
    lgResp,         \* the last log_exercise request and its response
    \* ---- HTTP errors of the handlers (routers/nutrition.py, routers/users.py)
    erFavorites,    \* nutrition_favorites rows, in insertion order
    erMacros,       \* profiles.macros per user, None when never generated
    erN,            \* number of requests received so far
    erResp,         \* the last response, with the exception raised inside the handler
    \* ---- length of the coach's replies (routers/chat.py)
    trReq,          \* the user's message and the text the model or a tool produced
    trReply,        \* the reply that is stored and returned, as its words
    trN,            \* 1 once the reply of the behaviour has been produced
    \* ---- ai_jobs rows of run_prompt (app/prompts.py)
    jbJobs,         \* the ai_jobs rows, by id
    jbUpdates,      \* for each ai_jobs row, the statuses update_job has written to it
    jbResp,         \* how the last run_prompt ended: returned (with output) or raised
    \* ---- access to a chat thread (routers/chat.py)
    thThreads,      \* the chat_threads rows by id: owner, stored messages, touches
    thUsers,        \* the ids of the users rows
    thCalls,        \* executor tasks started, moderation calls and model calls so far
    thResp,         \* the last request on a thread and its answer
    \* ---- the stored key of a user in each router (nutrition.py, workouts.py, progress.py)
    ukLogs,         \* the nutrition_logs rows
    ukSessions,     \* the user_id of each workout_sessions row
    ukResp,         \* the last answer of log_manual_item, start_session or macro_adherence
    \* ---- the FatSecret token cache (app/fatsecret_client.py)
    fsNow,          \* int(time.time()), in seconds
    fsCache,        \* _TOKEN_CACHE
    fsFetches,      \* the tokens the OAuth endpoint has issued: when, and for how long
    fsResp,         \* what the last _get_token returned or raised
    \* ---- _normalize_action_proposal as a function of its argument (routers/chat.py)
    npArgs,         \* Optional raw_args of the call made
    npResult        \* what the call returned, or that it raised

ckStore == <<ckProfile, ckWrites, ckLog, ckPhotoRows, ckObjects>>
ckLocal == <<ckN, ckPc, ckReq, ckMacro, ckDeletes>>
ckOut == <<ckStatus, ckDetail>>
ckVars == <<ckStore, ckLocal, ckOut>>
prVars == <<sessStatus, logs, prs, csPc, csSession, csBest, csPrev, csUpdates, csLogged>>
fdVars == <<fdResults, fdStatus>>
obVars == <<obInput, obStatus, obHeight, obWeight>>
chStore == <<chMsgs, chTouched, chUser, chTemplates, chUuid>>
chExec == <<chRunning, chQueue>>
chFut == <<chFlags, chRows, chCtx, chSum>>
chReq == <<chN, chContent, chStream>>
chLocal == <<chPc, chHistory, chProposal, chCompletions>>
chOut == <<chEvents, chStreamState, chResp>>
chVars == <<chStore, chExec, chFut, chReq, chLocal, chOut>>
auVars == <<auUsers, auResp>>
dcVars == <<dcRows, dcToday, dcN, dcSaved, dcResp>>
tpVars == <<tpTemplates, tpRows, tpExercises, tpGiven, tpResp>>
lgVars == <<lgSchema, lgFormat, lgN, lgLogs, lgSets, lgResp>>
erVars == <<erFavorites, erMacros, erN, erResp>>
trVars == <<trReq, trReply, trN>>
jbVars == <<jbJobs, jbUpdates, jbResp>>
thVars == <<thThreads, thUsers, thCalls, thResp>>
ukVars == <<ukLogs, ukSessions, ukResp>>
fsVars == <<fsNow, fsCache, fsFetches, fsResp>>
npVars == <<npArgs, npResult>>
\* The variables of the handlers modelled after the coach chat.
xtVars == <<auVars, dcVars, tpVars, lgVars, erVars, trVars, jbVars, thVars, ukVars, fsVars, npVars>>
vars == <<ckVars, prVars, fdVars, obVars, chVars, xtVars>>

None == <<>>
Some(x) == <<x>>

----------------------------------------------------------------------------
(* Bounds *)

MaxCheckins == 1
MaxLogs == 1
MaxPrs == 3
MaxFoodResults == 2
MaxIntLen == 2
MaxFloatLen == 3
MaxRequests == 2
MaxTurns == 3
MaxUsers == 3
MaxDaily == 1
MaxDays == 2
MaxTemplates == 2
MaxLogRequests == 1
MaxErrorRequests == 2
MaxTextLen == 3

----------------------------------------------------------------------------
(* Weekly check-in: routers/checkins.py *)

MacroKeys == {"calories", "protein", "carbs", "fats"}

\* Python round(): nearest integer, ties to even; t is a number in tenths.
RoundTenths(t) ==
    LET q == t \div 10
        r == t % 10
    IN  IF r < 5 THEN q
        ELSE IF r > 5 THEN q + 1
        ELSE IF q % 2 = 0 THEN q ELSE q + 1

\* _to_number: None stays None, a number becomes int(round(value)).
ToNumber(raw) == IF raw = None THEN None ELSE Some(RoundTenths(raw[1]))

\* `x or 0` on an Optional int.
OrZero(opt) == IF opt = None THEN 0 ELSE opt[1]

\* _normalize_macros: None unless the value is a dict with four numbers.
NormalizeMacros(raw) ==
    IF raw = None THEN None
    ELSE IF \E k \in MacroKeys : ToNumber(raw[1][k]) = None THEN None
    ELSE Some([k \in MacroKeys |-> ToNumber(raw[1][k])[1]])

\* _normalize_macro_delta: {} (here None) unless the value is a dict.
NormalizeMacroDelta(raw) ==
    IF raw = None THEN None
    ELSE Some([k \in MacroKeys |-> OrZero(ToNumber(raw[1][k]))])

\* any(value != 0 for value in macro_delta.values())
DeltaNonZero(delta) ==
    delta # None /\ \E k \in MacroKeys : delta[1][k] # 0

\* delta.get(key) or 0
DeltaGet(delta, k) == IF delta = None THEN 0 ELSE delta[1][k]

MaxOf(a, b) == IF a >= b THEN a ELSE b

ApplyMacroDeltaNoFloor(current, delta) ==
    [k \in MacroKeys |-> MaxOf(0, current[k] + DeltaGet(delta, k))]

\* _apply_macro_delta: per-key max(0, current + delta), calories >= 1200.
ApplyMacroDelta(current, delta) ==
    LET updated == [k \in MacroKeys |-> MaxOf(0, current[k] + DeltaGet(delta, k))]
    IN  IF updated["calories"] < 1200
        THEN [updated EXCEPT !["calories"] = 1200]
        ELSE updated

\* The JSON the profile row holds after the upsert of integer macros.
MacrosToJson(m) == Some([k \in MacroKeys |-> Some(m[k] * 10)])

\* Values of the profile's stored macros (tenths; None = key missing).
CurCalories == {None, Some(9000), Some(12004), Some(26000)}
CurGrams == {None, Some(0), Some(1505)}

\* Values the analysis returns in macro_delta (tenths; None = key missing).
DeltaCalories == {None, Some(-50000), Some(-1005), Some(4), Some(2500)}
DeltaGrams == {None, Some(-3000), Some(105)}

RawProfiles ==
    {None} \cup
    {Some([calories |-> c, protein |-> p, carbs |-> p, fats |-> f]) :
        c \in CurCalories, p \in CurGrams, f \in CurGrams}

RawDeltas ==
    {None} \cup
    {Some([calories |-> c, protein |-> p, carbs |-> g, fats |-> g]) :
        c \in DeltaCalories, p \in DeltaGrams, g \in DeltaGrams}

\* The analysis text: prose, or a JSON object with the two keys read here.
AiOutputs ==
    {[object |-> FALSE, macro_delta |-> None, update_macros |-> FALSE]} \cup
    {[object |-> TRUE, macro_delta |-> d, update_macros |-> f] :
        d \in RawDeltas, f \in BOOLEAN}

\* parse_json_output: the dict, or None for the ValueError raised on text
\* that holds no JSON object.
ParseJsonOutput(ai_output) ==
    IF ai_output.object
    THEN Some([macro_delta |-> ai_output.macro_delta,
               update_macros |-> ai_output.update_macros])
    ELSE None

UrlA == "https://db.fit.io/storage/v1/object/public/progress-photos/u1/a.jpg"
UrlB == "https://db.fit.io/storage/v1/object/public/progress-photos/u1/b.jpg"
UrlX == "https://cdn.fit.io/x.jpg"
DateValue == "2026-01-05"

\* _clean_photo_url: the stripped string, None when it is blank.
CleanPhotoUrl(value) == IF value = " " THEN None ELSE Some(value)

\* _extract_photo_items on a list of dicts: the items with a usable url,
\* each with its own date or the check-in's date.
ExtractPhotoItems(value, default_date) ==
    LET usable == SelectSeq(value, LAMBDA item : CleanPhotoUrl(item.url) # None)
    IN  [i \in 1..Len(usable) |->
            [url |-> CleanPhotoUrl(usable[i].url)[1],
             date |-> IF usable[i].date = None THEN default_date ELSE usable[i].date[1]]]

\* _extract_photo_urls on a list of strings.
ExtractPhotoUrls(value) ==
    LET usable == SelectSeq(value, LAMBDA item : CleanPhotoUrl(item) # None)
    IN  [i \in 1..Len(usable) |-> CleanPhotoUrl(usable[i])[1]]

\* _extract_photo_urls on a list of photo items.
ItemUrls(items) == ExtractPhotoUrls([i \in 1..Len(items) |-> items[i].url])

\* _dedupe_urls: the first occurrence of every url, in order.
DedupeUrls(urls) ==
    LET first == {i \in 1..Len(urls) : \A j \in 1..(i - 1) : urls[j] # urls[i]}
        Nth[n \in 0..Len(urls)] ==
            IF n = 0 THEN 0
            ELSE CHOOSE i \in first : i > Nth[n - 1] /\ \A j \in first : j > Nth[n - 1] => i <= j
    IN  [n \in 1..Cardinality(first) |-> urls[Nth[n]]]

\* _extract_storage_path_from_public_url for the bucket progress-photos.
ExtractStoragePath(photo_url) ==
    CASE photo_url = UrlA -> Some("u1/a.jpg")
      [] photo_url = UrlB -> Some("u1/b.jpg")
      [] OTHER -> None

\* (photo_retention or "store").strip().lower(), then "store" unless it is
\* one of the two policies.
RetentionValue(photo_retention) ==
    LET lowered ==
            CASE photo_retention = None -> "store"
              [] photo_retention = Some(" Delete_After_Scan ") -> "delete_after_scan"
              [] OTHER -> photo_retention[1]
    IN  IF lowered \in {"store", "delete_after_scan"} THEN lowered ELSE "store"

KeepEveryPhoto(photo_retention) == TRUE

\* keep_photos
KeepPhotos(photo_retention) == RetentionValue(photo_retention) # "delete_after_scan"

\* photo_list, fallback_urls and prompt_urls of the current request.
PhotoList == ExtractPhotoItems(ckReq.photos, DateValue)
FallbackUrls == ExtractPhotoUrls(ckReq.photo_urls)
PromptUrls ==
    DedupeUrls(IF ItemUrls(PhotoList) # <<>> THEN ItemUrls(PhotoList)
               ELSE ExtractPhotoUrls(FallbackUrls))

\* stored_photos
StoredPhotos ==
    IF PhotoList # <<>> THEN PhotoList
    ELSE [i \in 1..Len(FallbackUrls) |-> [url |-> FallbackUrls[i], date |-> DateValue]]

\* `paths` of _delete_checkin_photo_assets.
StoragePaths(urls) ==
    {ExtractStoragePath(urls[i])[1] : i \in {j \in 1..Len(urls) : ExtractStoragePath(urls[j]) # None}}

StorageObjects == {"u1/a.jpg", "u1/b.jpg"}

\* The `photos` and `photo_urls` a client submits: nothing, one photo, or a
\* list with a blank entry and a repeated url.
PhotoInputs ==
    {<<>>,
     <<[url |-> UrlA, date |-> None]>>,
     <<[url |-> UrlA, date |-> Some("2026-01-01")], [url |-> " ", date |-> None],
       [url |-> UrlX, date |-> None], [url |-> UrlA, date |-> None]>>}
UrlInputs == {<<>>, <<UrlB>>, <<UrlX, UrlB, UrlX>>}
Retentions ==
    {None, Some("store"), Some("delete_after_scan"), Some(" Delete_After_Scan "),
     Some("archive")}

NoCheckinRequest == [photos |-> <<>>, photo_urls |-> <<>>, photo_retention |-> None]

\* Before any request: the user's uploads have their rows and objects.
CkRest ==
    /\ ckLog = <<>> /\ ckWrites = 0
    /\ ckStatus = 0 /\ ckDetail = ""
    /\ ckN = 0 /\ ckPc = "idle"
    /\ ckReq = NoCheckinRequest
    /\ ckMacro = None
    /\ ckPhotoRows = {UrlA, UrlB, UrlX}
    /\ ckObjects = StorageObjects
    /\ ckDeletes = <<>>

CkInit == ckProfile \in RawProfiles /\ CkRest

ckOthers == <<prVars, fdVars, obVars, chVars, xtVars>>

\* submit_checkin up to the call of run_prompt.
SubmitCheckin(photos, photo_urls, photo_retention) ==
    /\ ckPc = "idle"
    /\ ckN < MaxCheckins
    /\ ckN' = ckN + 1
    /\ ckReq' = [photos |-> photos, photo_urls |-> photo_urls,
                 photo_retention |-> photo_retention]
    /\ ckPc' = "run_prompt"
    /\ ckMacro' = None
    /\ ckDeletes' = <<>>
    /\ ckStatus' = 0 /\ ckDetail' = ""
    /\ UNCHANGED <<ckStore, ckOthers>>

\* run_prompt raises: HTTP 500, nothing is written.
AnalysisFails ==
    /\ ckPc = "run_prompt"
    /\ ckPc' = "idle"
    /\ ckStatus' = 500 /\ ckDetail' = "run_prompt"
    /\ UNCHANGED <<ckStore, ckN, ckReq, ckMacro, ckDeletes, ckOthers>>

\* run_prompt returns ai_output: the macro update, with the upsert of the
\* profile either succeeding or raising.
Analysis(ai_output, upserted) ==
    /\ ckPc = "run_prompt"
    /\ LET parsed_output == ParseJsonOutput(ai_output)
           macro_delta == NormalizeMacroDelta(
               IF parsed_output = None THEN None ELSE parsed_output[1].macro_delta)
           update_macros == \/ parsed_output # None /\ parsed_output[1].update_macros
                            \/ DeltaNonZero(macro_delta)
           current_macros == IF update_macros THEN NormalizeMacros(ckProfile) ELSE None
           macro_applied == update_macros /\ current_macros # None
           updated_macros ==
               IF macro_applied
               THEN Some(ApplyMacroDelta(current_macros[1], macro_delta))
               ELSE None
       IN  IF macro_applied /\ ~upserted
           THEN /\ ckPc' = "idle"
                /\ ckStatus' = 500 /\ ckDetail' = "profiles upsert"
                /\ UNCHANGED <<ckProfile, ckWrites, ckMacro>>
           ELSE /\ ckProfile' = IF macro_applied THEN MacrosToJson(updated_macros[1])
                                                 ELSE ckProfile
                /\ ckWrites' = IF macro_applied THEN ckWrites + 1 ELSE ckWrites
                /\ ckMacro' = Some([suggested |-> update_macros,
                                    delta |-> macro_delta,
                                    applied |-> macro_applied,
                                    new_macros |-> updated_macros])
                /\ ckPc' = IF ~KeepPhotos(ckReq.photo_retention) /\ PromptUrls # <<>>
                           THEN "delete_rows" ELSE "insert"
                /\ UNCHANGED <<ckStatus, ckDetail>>
    /\ UNCHANGED <<ckLog, ckPhotoRows, ckObjects, ckN, ckReq, ckDeletes, ckOthers>>

DeletePhotoRowRaising(deleted) ==
    /\ ckPc = "delete_rows"
    /\ LET photo_url == PromptUrls[Len(ckDeletes) + 1]
       IN  /\ ckPhotoRows' = IF deleted THEN ckPhotoRows \ {photo_url} ELSE ckPhotoRows
           /\ ckDeletes' = Append(ckDeletes, [target |-> photo_url, ok |-> deleted])
           /\ IF ~deleted
              THEN ckPc' = "idle" /\ ckStatus' = 500 /\ ckDetail' = "progress_photos delete"
              ELSE /\ ckPc' = IF Len(ckDeletes) + 1 < Len(PromptUrls) THEN "delete_rows"
                              ELSE IF StoragePaths(PromptUrls) # {} THEN "remove_storage"
                              ELSE "insert"
                   /\ UNCHANGED <<ckStatus, ckDetail>>
    /\ UNCHANGED <<ckProfile, ckWrites, ckLog, ckObjects, ckN, ckReq, ckMacro, ckOthers>>

\* _delete_checkin_photo_assets, one turn of the loop over cleaned_urls: the
\* delete of the progress_photos row, whose exception is swallowed.
DeletePhotoRow(deleted) ==
    /\ ckPc = "delete_rows"
    /\ LET photo_url == PromptUrls[Len(ckDeletes) + 1]
       IN  /\ ckPhotoRows' = IF deleted THEN ckPhotoRows \ {photo_url} ELSE ckPhotoRows
           /\ ckDeletes' = Append(ckDeletes, [target |-> photo_url, ok |-> deleted])
           /\ ckPc' = IF Len(ckDeletes) + 1 < Len(PromptUrls) THEN "delete_rows"
                      ELSE IF StoragePaths(PromptUrls) # {} THEN "remove_storage"
                      ELSE "insert"
    /\ UNCHANGED <<ckProfile, ckWrites, ckLog, ckObjects, ckN, ckReq, ckMacro, ckOut, ckOthers>>

\* _delete_checkin_photo_assets, storage.remove(paths): it removes some of
\* the objects and raises unless it removed all; the exception is swallowed.
RemoveStorage(removed) ==
    /\ ckPc = "remove_storage"
    /\ removed \subseteq StoragePaths(PromptUrls)
    /\ ckObjects' = ckObjects \ removed
    /\ ckDeletes' = Append(ckDeletes, [target |-> "storage",
                                       ok |-> removed = StoragePaths(PromptUrls)])
    /\ ckPc' = "insert"
    /\ UNCHANGED <<ckProfile, ckWrites, ckLog, ckPhotoRows, ckN, ckReq, ckMacro, ckOut, ckOthers>>

\* The insert of the weekly_checkins row and the response: status complete,
\* or HTTP 500 when the insert raises.
InsertCheckin(inserted) ==
    /\ ckPc = "insert"
    /\ ckPc' = "idle"
    /\ IF inserted
       THEN /\ ckLog' = Append(ckLog,
                   [suggested |-> ckMacro[1].suggested,
                    delta |-> ckMacro[1].delta,
                    applied |-> ckMacro[1].applied,
                    new_macros |-> ckMacro[1].new_macros,
                    photos |-> IF KeepPhotos(ckReq.photo_retention) THEN StoredPhotos ELSE <<>>,
                    photo_retention |-> RetentionValue(ckReq.photo_retention)])
            /\ ckStatus' = 200 /\ ckDetail' = ""
       ELSE /\ ckLog' = ckLog
            /\ ckStatus' = 500 /\ ckDetail' = "weekly_checkins insert"
    /\ UNCHANGED <<ckProfile, ckWrites, ckPhotoRows, ckObjects, ckN, ckReq, ckMacro,
                   ckDeletes, ckOthers>>

----------------------------------------------------------------------------
(* Workout sessions and PRs: routers/workouts.py *)

Sessions == {1, 2}
Requests == {1, 2}
Exercises == {"Squat", "Bench"}
RepsVals == {0, 6}
WeightVals == {100, 110}

\* All sessions belong to one user (session["user_id"]).
SessionUser(s) == "u1"

\* _estimate_one_rep_max in hundredths: round(weight * (1 + reps / 30), 2).
\* weight * (30 + reps) * 100 / 30 is never half way between two integers.
EstimateOneRepMax(weight, reps) ==
    IF weight <= 0 \/ reps <= 0 THEN 0
    ELSE (weight * (30 + reps) * 10 + 1) \div 3

RECURSIVE BestByExercise(_, _)
\* The loop over logs: a dict name -> best estimate, kept in insertion order
\* as a sequence of <<name, value>>.
BestByExercise(ls, acc) ==
    IF ls = <<>> THEN acc
    ELSE LET log == Head(ls)
             estimate == EstimateOneRepMax(log.weight, log.reps)
             idx == {i \in 1..Len(acc) : acc[i][1] = log.ex}
         IN  IF estimate <= 0 THEN BestByExercise(Tail(ls), acc)
             ELSE IF idx = {}
             THEN BestByExercise(Tail(ls), Append(acc, <<log.ex, estimate>>))
             ELSE LET i == CHOOSE j \in idx : TRUE
                  IN  BestByExercise(Tail(ls),
                        [acc EXCEPT ![i] = <<log.ex, MaxOf(acc[i][2], estimate)>>])

\* select id,value ... order("value", desc=True).limit(1): the highest stored
\* value for (user, exercise, estimated_1rm), None when there is no row.
StoredValues(u, ex) == {prs[i].value : i \in {j \in 1..Len(prs) : prs[j].user = u /\ prs[j].ex = ex}}

SetMax(S) == CHOOSE x \in S : \A y \in S : y <= x

HighestStored(u, ex) ==
    IF StoredValues(u, ex) = {} THEN None ELSE Some(SetMax(StoredValues(u, ex)))

PrInit ==
    /\ sessStatus = [s \in Sessions |-> "in_progress"]
    /\ logs = [s \in Sessions |-> <<>>]
    /\ prs = <<>>
    /\ csPc = [r \in Requests |-> "idle"]
    /\ csSession = [r \in Requests |-> 1]
    /\ csBest = [r \in Requests |-> <<>>]
    /\ csPrev = [r \in Requests |-> None]
    /\ csUpdates = [r \in Requests |-> <<>>]
    /\ csLogged = [r \in Requests |-> 0]

\* log_exercise (strength log): one exercise_logs row for the session.
LogExercise(s, ex, reps, weight) ==
    /\ Len(logs[s]) < MaxLogs
    /\ logs' = [logs EXCEPT ![s] = Append(@, [ex |-> ex, reps |-> reps, weight |-> weight])]
    /\ UNCHANGED <<sessStatus, prs, csPc, csSession, csBest, csPrev, csUpdates>>
    /\ UNCHANGED <<csLogged, ckVars, fdVars, obVars, chVars, xtVars>>

\* complete_session, statement by statement; every datastore call is a step.
\* The session lookup and the status update.
CsUpdateSession(r, s) ==
    /\ csPc[r] = "idle"
    /\ csSession' = [csSession EXCEPT ![r] = s]
    /\ sessStatus' = [sessStatus EXCEPT ![s] = "completed"]
    /\ csPc' = [csPc EXCEPT ![r] = "logs"]
    /\ csUpdates' = [csUpdates EXCEPT ![r] = <<>>]
    /\ csBest' = [csBest EXCEPT ![r] = <<>>]
    /\ csPrev' = [csPrev EXCEPT ![r] = None]
    /\ UNCHANGED <<logs, prs>>
    /\ UNCHANGED <<csLogged, ckVars, fdVars, obVars, chVars, xtVars>>

\* The exercise_logs query and the best_by_exercise loop.
ReadSessionLogs(r) ==
    /\ csPc[r] = "logs"
    /\ csBest' = [csBest EXCEPT ![r] = BestByExercise(logs[csSession[r]], <<>>)]
    /\ csPc' = [csPc EXCEPT ![r] = "lookup"]
    /\ UNCHANGED <<sessStatus, logs, prs, csSession, csPrev, csUpdates>>
    /\ UNCHANGED <<ckVars, fdVars, obVars, chVars, xtVars>>

\* The same without a record of how many rows the query returned.
CsReadLogs(r) == ReadSessionLogs(r) /\ UNCHANGED csLogged

\* The same with the number of rows the query returned, len(logs).
CsReadLogsCounted(r) ==
    /\ ReadSessionLogs(r)
    /\ csLogged' = [csLogged EXCEPT ![r] = Len(logs[csSession[r]])]

SkipPrStrict(value, previous) == previous # None /\ value < previous[1]

\* `if existing: ... if value <= previous_value: continue`
SkipPr(value, previous) == previous # None /\ value <= previous[1]

\* The prs lookup for the next exercise of best_by_exercise.
CsLookup(r) ==
    /\ csPc[r] = "lookup"
    /\ csBest[r] # <<>>
    /\ LET ex == Head(csBest[r])[1]
           value == Head(csBest[r])[2]
           previous == HighestStored(SessionUser(csSession[r]), ex)
       IN  /\ csPrev' = [csPrev EXCEPT ![r] = previous]
           /\ IF SkipPr(value, previous)
              THEN /\ csBest' = [csBest EXCEPT ![r] = Tail(@)]
                   /\ csPc' = csPc
              ELSE /\ csBest' = csBest
                   /\ csPc' = [csPc EXCEPT ![r] = "insert"]
    /\ UNCHANGED <<sessStatus, logs, prs, csSession, csUpdates>>
    /\ UNCHANGED <<csLogged, ckVars, fdVars, obVars, chVars, xtVars>>

\* The prs insert and pr_updates.append for the exercise just looked up.
CsInsert(r) ==
    /\ csPc[r] = "insert"
    /\ LET ex == Head(csBest[r])[1]
           value == Head(csBest[r])[2]
       IN  /\ prs' = Append(prs, [user |-> SessionUser(csSession[r]), ex |-> ex,
                                  metric |-> "estimated_1rm", value |-> value])
           /\ csUpdates' = [csUpdates EXCEPT ![r] =
                  Append(@, [ex |-> ex, value |-> value, previous_value |-> csPrev[r]])]
    /\ csBest' = [csBest EXCEPT ![r] = Tail(@)]
    /\ csPc' = [csPc EXCEPT ![r] = "lookup"]
    /\ UNCHANGED <<sessStatus, logs, csSession, csPrev>>
    /\ UNCHANGED <<csLogged, ckVars, fdVars, obVars, chVars, xtVars>>

\* The return of the response {"prs": pr_updates}.
CsReturn(r) ==
    /\ csPc[r] = "lookup"
    /\ csBest[r] = <<>>
    /\ csPc' = [csPc EXCEPT ![r] = "done"]
    /\ UNCHANGED <<sessStatus, logs, prs, csSession, csBest, csPrev, csUpdates>>
    /\ UNCHANGED <<csLogged, ckVars, fdVars, obVars, chVars, xtVars>>

\* The client issues the request again (the same or another session).
CsAgain(r) ==
    /\ csPc[r] = "done"
    /\ Len(prs) < MaxPrs
    /\ csPc' = [csPc EXCEPT ![r] = "idle"]
    /\ UNCHANGED <<sessStatus, logs, prs, csSession, csBest, csPrev, csUpdates>>
    /\ csLogged' = [csLogged EXCEPT ![r] = 0]
    /\ UNCHANGED <<ckVars, fdVars, obVars, chVars, xtVars>>

\* A session holds logs of several exercises.
MaxSessionLogs == MaxLogs + 1
LogSessionExercise(s, ex, reps, weight) ==
    /\ Len(logs[s]) < MaxSessionLogs
    /\ logs' = [logs EXCEPT ![s] = Append(@, [ex |-> ex, reps |-> reps, weight |-> weight])]
    /\ UNCHANGED <<sessStatus, prs, csPc, csSession, csBest, csPrev, csUpdates>>
    /\ UNCHANGED <<csLogged, ckVars, fdVars, obVars, chVars, xtVars>>

\* The prs lookup raises: `except Exception` answers HTTP 500 with the
\* exception text, and the handler has no statement that undoes a write.
CsLookupFails(r) ==
    /\ csPc[r] = "lookup"
    /\ csBest[r] # <<>>
    /\ csPc' = [csPc EXCEPT ![r] = "error_500"]
    /\ UNCHANGED <<sessStatus, logs, prs, csSession, csBest, csPrev, csUpdates>>
    /\ UNCHANGED <<csLogged, ckVars, fdVars, obVars, chVars, xtVars>>

\* A handler that undid its writes before answering.
CsInsertFailsRolledBack(r) ==
    /\ csPc[r] = "insert"
    /\ csPc' = [csPc EXCEPT ![r] = "error_500"]
    /\ sessStatus' = [sessStatus EXCEPT ![csSession[r]] = "in_progress"]
    /\ prs' = SubSeq(prs, 1, Len(prs) - Len(csUpdates[r]))
    /\ UNCHANGED <<logs, csSession, csBest, csPrev, csUpdates>>
    /\ UNCHANGED <<csLogged, ckVars, fdVars, obVars, chVars, xtVars>>

\* The prs insert raises: HTTP 500 again, pr_updates is lost with the frame.
CsInsertFails(r) ==
    /\ csPc[r] = "insert"
    /\ csPc' = [csPc EXCEPT ![r] = "error_500"]
    /\ UNCHANGED <<sessStatus, logs, prs, csSession, csBest, csPrev, csUpdates>>
    /\ UNCHANGED <<csLogged, ckVars, fdVars, obVars, chVars, xtVars>>

\* No other complete_session request is between its first and last statement.
NoOtherActive(r) == \A q \in Requests \ {r} : csPc[q] \in {"idle", "done"}

----------------------------------------------------------------------------
(* Third-party food normalisation: routers/nutrition.py *)

\* A JSON value of an upstream response: a missing key, null, a string or a
\* number.
JAbsent == [kind |-> "absent", s |-> "", n |-> 0]
JNull == [kind |-> "null", s |-> "", n |-> 0]
JStr(str) == [kind |-> "str", s |-> str, n |-> 0]
JNum(num) == [kind |-> "num", s |-> "", n |-> num]

\* Python truthiness of dict.get(key).
Truthy(j) == (j.kind = "str" /\ j.s # "") \/ (j.kind = "num" /\ j.n # 0)

\* str(n) for the numbers of the model.
NumStr(n) == CASE n = 0 -> "0" [] n = 1 -> "1" [] n = 52 -> "52"
               [] n = 100 -> "100" [] n = 1234 -> "1234" [] OTHER -> "?"

\* str(value) of a truthy JSON value.
PyStr(j) == IF j.kind = "str" THEN j.s ELSE NumStr(j.n)

\* str(x or "")
StrOrEmpty(j) == IF Truthy(j) THEN PyStr(j) ELSE ""

\* str.title() on the names of the model.
Title(str) == CASE str = "egg" -> "Egg" [] str = "greek yogurt" -> "Greek Yogurt"
                [] str = "Food" -> "Food" [] OTHER -> str

\* float(value) on a JSON value: None on TypeError or ValueError.
PyFloat(j) ==
    IF j.kind = "num" THEN Some(j.n)
    ELSE IF j.kind = "str" /\ j.s = "52" THEN Some(52)
    ELSE IF j.kind = "str" /\ j.s = "100" THEN Some(100)
    ELSE IF j.kind = "str" /\ j.s = "1" THEN Some(1)
    ELSE None

\* _safe_float
SafeFloat(j) == IF PyFloat(j) = None THEN 0 ELSE PyFloat(j)[1]

\* `match in name.lower()` for the nutrient names of the model.
NameContains(name, match) ==
    <<name, match>> \in {<<"Energy", "energy">>, <<"Protein", "protein">>,
                         <<"Total lipid (fat)", "total lipid">>,
                         <<"Total lipid (fat)", "fat">>,
                         <<"Carbohydrate, by difference", "carbohydrate">>}

RECURSIVE NutrientValue(_, _)
\* _nutrient_value: the first nutrient whose name matches decides.
NutrientValue(nutrients, matches) ==
    IF nutrients = <<>> THEN 0
    ELSE LET nutrient == Head(nutrients)
             name == IF Truthy(nutrient.nutrientName) THEN nutrient.nutrientName.s
                     ELSE IF Truthy(nutrient.nestedName) THEN nutrient.nestedName.s
                     ELSE ""
             value == IF nutrient.value.kind \in {"absent", "null"}
                      THEN nutrient.amount ELSE nutrient.value
         IN  IF \E mt \in matches : NameContains(name, mt)
             THEN SafeFloat(value)
             ELSE NutrientValue(Tail(nutrients), matches)

\* name = food.get("description") or food.get("description", "Food"); the
\* later name.title() raises for a name that is not a string.
UsdaNameRaises(food) ==
    food.description.kind = "null" \/ food.description.kind = "num"

UsdaName(food) ==
    IF food.description.kind = "absent" THEN "Food" ELSE food.description.s

\* _normalize_usda_food
NormalizeUsdaFood(food) ==
    LET fdc_id == StrOrEmpty(food.fdcId)
        serving == IF Truthy(food.servingSize) /\ Truthy(food.servingSizeUnit)
                   THEN PyStr(food.servingSize) \o " " \o PyStr(food.servingSizeUnit)
                   ELSE "100 g"
    IN  [source |-> "usda",
         name |-> Title(UsdaName(food)),
         serving |-> serving,
         protein |-> NutrientValue(food.foodNutrients, {"protein"}),
         carbs |-> NutrientValue(food.foodNutrients, {"carbohydrate"}),
         fats |-> NutrientValue(food.foodNutrients, {"total lipid", "fat"}),
         calories |-> NutrientValue(food.foodNutrients, {"energy"}),
         metadata |-> [fdc_id |-> fdc_id, source |-> "usda"],
         fdc_id |-> fdc_id]

\* _normalize_fatsecret_search_item
NormalizeFatsecretSearchItem(food) ==
    [source |-> "fatsecret",
     name |-> Title(IF Truthy(food.food_name) THEN PyStr(food.food_name) ELSE "Food"),
     food_id |-> StrOrEmpty(food.food_id),
     brand |-> food.brand_name,
     description |-> IF Truthy(food.food_description) THEN PyStr(food.food_description) ELSE ""]

\* float(number_of_units) raises ValueError for a string that is no number.
ServingRaises(serving) ==
    ~serving.empty /\ Truthy(serving.number_of_units) /\ PyFloat(serving.number_of_units) = None

\* _parse_serving_option for a non-empty serving dict.
ParseServingOption(serving) ==
    LET serving_desc == IF Truthy(serving.serving_description)
                        THEN PyStr(serving.serving_description) ELSE ""
        metric == Truthy(serving.metric_serving_amount) /\ Truthy(serving.metric_serving_unit)
        display_text == IF serving_desc = "" /\ metric
                        THEN PyStr(serving.metric_serving_amount) \o " "
                                \o PyStr(serving.metric_serving_unit)
                        ELSE serving_desc
    IN  [id |-> IF Truthy(serving.serving_id) THEN Some(PyStr(serving.serving_id)) ELSE None,
         description |-> IF display_text = "" THEN "1 serving" ELSE display_text,
         metric_grams |-> IF metric /\ PyStr(serving.metric_serving_unit) = "g"
                          THEN PyFloat(serving.metric_serving_amount) ELSE None,
         number_of_units |-> IF Truthy(serving.number_of_units)
                             THEN SafeFloat(serving.number_of_units) ELSE 1,
         calories |-> SafeFloat(serving.calories),
         protein |-> SafeFloat(serving.protein),
         carbs |-> SafeFloat(serving.carbohydrate),
         fats |-> SafeFloat(serving.fat)]

RECURSIVE AllServings(_)
\* The loop over servings_data: `if parsed:` drops the empty dicts.
AllServings(servings) ==
    IF servings = <<>> THEN <<>>
    ELSE IF Head(servings).empty THEN AllServings(Tail(servings))
    ELSE <<ParseServingOption(Head(servings))>> \o AllServings(Tail(servings))

\* _normalize_fatsecret_detail; food.servings is the list under
\* servings.serving (a single dict is a list of one, a missing key is empty).
NormalizeFatsecretDetail(food) ==
    LET all_servings == AllServings(food.servings)
        has == all_servings # <<>>
    IN  [id |-> StrOrEmpty(food.food_id),
         source |-> "fatsecret",
         name |-> Title(IF Truthy(food.food_name) THEN PyStr(food.food_name) ELSE "Food"),
         serving |-> IF has THEN all_servings[1].description ELSE "1 serving",
         protein |-> IF has THEN all_servings[1].protein ELSE 0,
         carbs |-> IF has THEN all_servings[1].carbs ELSE 0,
         fats |-> IF has THEN all_servings[1].fats ELSE 0,
         calories |-> IF has THEN all_servings[1].calories ELSE 0,
         serving_options |-> all_servings,
         metadata |-> [food_id |-> StrOrEmpty(food.food_id), brand |-> food.brand_name],
         food_id |-> StrOrEmpty(food.food_id)]

\* The record fatsecret_search builds when the food.get lookup raises.
FatsecretFallback(food, food_id) ==
    LET fallback == NormalizeFatsecretSearchItem(food)
        fid == IF fallback.food_id # "" THEN fallback.food_id ELSE food_id
    IN  [id |-> fid,
         source |-> "fatsecret",
         name |-> IF fallback.name # "" THEN fallback.name ELSE "Food",
         serving |-> IF fallback.description # "" THEN fallback.description ELSE "1 serving",
         protein |-> 0,
         carbs |-> 0,
         fats |-> 0,
         calories |-> 0,
         metadata |-> [brand |-> fallback.brand],
         food_id |-> fid]

\* Upstream responses of the model.
Nutrients ==
    {[nutrientName |-> nm, nestedName |-> JAbsent, value |-> v, amount |-> JAbsent] :
        nm \in {JStr("Energy"), JStr("Protein")}, v \in {JNum(52), JNull}}
    \cup {[nutrientName |-> JAbsent, nestedName |-> JStr("Total lipid (fat)"),
           value |-> JAbsent, amount |-> JNum(1)]}

UsdaFoods ==
    {[description |-> d, fdcId |-> f, servingSize |-> sz, servingSizeUnit |-> u,
      foodNutrients |-> ns] :
        d \in {JAbsent, JNull, JStr("egg")},
        f \in {JAbsent, JNum(1234)},
        sz \in {JAbsent, JNum(100)},
        u \in {JAbsent, JStr("g")},
        ns \in {<<>>} \cup {<<x>> : x \in Nutrients}}

EmptyServing ==
    [empty |-> TRUE, serving_id |-> JAbsent, serving_description |-> JAbsent,
     metric_serving_amount |-> JAbsent, metric_serving_unit |-> JAbsent,
     number_of_units |-> JAbsent, calories |-> JAbsent, protein |-> JAbsent,
     carbohydrate |-> JAbsent, fat |-> JAbsent]

FsServings ==
    {EmptyServing} \cup
    {[empty |-> FALSE, serving_id |-> JStr("1"), serving_description |-> d,
      metric_serving_amount |-> JStr("100"), metric_serving_unit |-> JStr("g"),
      number_of_units |-> u, calories |-> JStr("52"), protein |-> JStr("1"),
      carbohydrate |-> JAbsent, fat |-> JStr("abc")] :
        d \in {JAbsent, JStr("1 cup")}, u \in {JAbsent, JStr("1"), JStr("abc")}}

\* The `food` object of a food.get response ({} when the key is missing).
FsDetailFoods ==
    {[food_id |-> i, food_name |-> nm, brand_name |-> b, servings |-> sv] :
        i \in {JAbsent, JStr("52")},
        nm \in {JAbsent, JStr("greek yogurt")},
        b \in {JAbsent, JStr("Acme")},
        sv \in {<<>>} \cup {<<x>> : x \in FsServings}}

\* An item of a foods.search response.
FsSearchFoods ==
    {[food_id |-> i, food_name |-> nm, brand_name |-> JAbsent, food_description |-> d] :
        i \in {JAbsent, JStr("52"), JNum(52)},
        nm \in {JAbsent, JStr("greek yogurt")},
        d \in {JAbsent, JStr("Per 100g")}}

FdInit ==
    /\ fdResults = <<>>
    /\ fdStatus = 0

\* usda_food_detail: the normalized record is the response.
UsdaFoodDetail(food) ==
    /\ Len(fdResults) < MaxFoodResults
    /\ IF UsdaNameRaises(food)
       THEN /\ fdStatus' = 500
            /\ fdResults' = fdResults
       ELSE /\ fdStatus' = 200
            /\ fdResults' = Append(fdResults, NormalizeUsdaFood(food))
    /\ UNCHANGED <<ckVars, prVars, obVars, chVars, xtVars>>

\* fatsecret_search for a response with one food whose detail lookup
\* succeeds and returns `detail`.
FatsecretSearchDetail(food, detail) ==
    /\ Len(fdResults) < MaxFoodResults
    /\ IF StrOrEmpty(food.food_id) = ""
       THEN /\ fdStatus' = 200
            /\ fdResults' = fdResults
       ELSE IF \E i \in 1..Len(detail.servings) : ServingRaises(detail.servings[i])
       THEN /\ fdStatus' = 500
            /\ fdResults' = fdResults
       ELSE /\ fdStatus' = 200
            /\ fdResults' = Append(fdResults, NormalizeFatsecretDetail(detail))
    /\ UNCHANGED <<ckVars, prVars, obVars, chVars, xtVars>>

\* fatsecret_search for a response with one food whose detail lookup raises
\* HTTPException.
FatsecretSearchFallback(food) ==
    /\ Len(fdResults) < MaxFoodResults
    /\ fdStatus' = 200
    /\ fdResults' = IF StrOrEmpty(food.food_id) = "" THEN fdResults
                    ELSE Append(fdResults, FatsecretFallback(food, StrOrEmpty(food.food_id)))
    /\ UNCHANGED <<ckVars, prVars, obVars, chVars, xtVars>>

----------------------------------------------------------------------------
(* Onboarding unit conversion: routers/onboarding.py *)

\* A form field is a string: a sequence of characters.
IntChars == {"5", "1", "-", " ", "x"}
FloatChars == {"1", "5", ".", "-"}

RECURSIVE StringsUpTo(_, _)
StringsUpTo(chars, n) ==
    IF n = 0 THEN {<<>>}
    ELSE LET shorter == StringsUpTo(chars, n - 1)
         IN  shorter \cup {Append(str, c) : str \in shorter, c \in chars}

IsDigit(c) == c \in {"0", "1", "2", "3", "4", "5", "6", "7", "8", "9"}

DigitVal(c) == CASE c = "0" -> 0 [] c = "1" -> 1 [] c = "2" -> 2 [] c = "3" -> 3
                 [] c = "4" -> 4 [] c = "5" -> 5 [] c = "6" -> 6 [] c = "7" -> 7
                 [] c = "8" -> 8 [] c = "9" -> 9

RECURSIVE Strip(_)
\* str.strip(): int() and float() ignore surrounding whitespace.
Strip(str) ==
    IF str = <<>> THEN str
    ELSE IF Head(str) = " " THEN Strip(Tail(str))
    ELSE IF str[Len(str)] = " " THEN Strip(SubSeq(str, 1, Len(str) - 1))
    ELSE str

RECURSIVE DigitsValue(_, _)
DigitsValue(str, acc) ==
    IF str = <<>> THEN acc ELSE DigitsValue(Tail(str), acc * 10 + DigitVal(Head(str)))

AllDigits(str) == str # <<>> /\ \A i \in 1..Len(str) : IsDigit(str[i])

\* int(value): optional sign and decimal digits; None on ValueError.
PyInt(str) ==
    LET t == Strip(str)
        neg == t # <<>> /\ Head(t) = "-"
        body == IF t # <<>> /\ Head(t) \in {"-", "+"} THEN Tail(t) ELSE t
    IN  IF AllDigits(body)
        THEN Some(IF neg THEN 0 - DigitsValue(body, 0) ELSE DigitsValue(body, 0))
        ELSE None

\* _parse_int (the form fields are strings, never None)
ParseInt(str) == PyInt(str)

\* float(value) as [mant, dec], the number mant / 10^dec: an optional sign,
\* digits with at most one point and at least one digit; None on ValueError.
PyFloatStr(str) ==
    LET t == Strip(str)
        neg == t # <<>> /\ Head(t) = "-"
        body == IF t # <<>> /\ Head(t) \in {"-", "+"} THEN Tail(t) ELSE t
        dots == {i \in 1..Len(body) : body[i] = "."}
        digits == SelectSeq(body, IsDigit)
        ok == /\ Cardinality(dots) <= 1
              /\ digits # <<>>
              /\ \A i \in 1..Len(body) : IsDigit(body[i]) \/ body[i] = "."
        dec == IF dots = {} THEN 0 ELSE Len(body) - (CHOOSE i \in dots : TRUE)
        mant == DigitsValue(digits, 0)
    IN  IF ok THEN Some([mant |-> IF neg THEN 0 - mant ELSE mant, dec |-> dec])
        ELSE None

\* _parse_float
ParseFloat(str) == PyFloatStr(str)

\* _height_cm in hundredths of a centimetre: feet * 30.48 + inches * 2.54 is
\* a whole number of hundredths, which round(.., 2) keeps.
HeightCm(feet, inches) ==
    LET feet_value == ParseInt(feet)
        inches_value == ParseInt(inches)
    IN  IF feet_value = None /\ inches_value = None THEN None
        ELSE Some(OrZero(feet_value) * 3048 + OrZero(inches_value) * 254)

Pow10(n) == CASE n = 0 -> 1 [] n = 1 -> 10 [] n = 2 -> 100 [] n = 3 -> 1000
              [] n = 4 -> 10000 [] n = 5 -> 100000 [] n = 6 -> 1000000
              [] n = 7 -> 10000000 [] n = 8 -> 100000000 [] n = 9 -> 1000000000

TruncQuotient(hi, lo, d) ==
    LET q1 == hi \div d
        rest == (hi % d) * 1000 + lo
        full == d * 1000
    IN  q1 + (rest \div full)

\* round(x, 2) of x = (hi * 1000 + lo) / d1000, d1000 = 1000 * d, in
\* hundredths: nearest, ties to even.  The operands stay below 2^31.
RoundQuotient(hi, lo, d) ==
    LET q1 == hi \div d
        rest == (hi % d) * 1000 + lo
        full == d * 1000
        q == q1 + (rest \div full)
        rem == rest % full
    IN  IF 2 * rem < full THEN q
        ELSE IF 2 * rem > full THEN q + 1
        ELSE IF q % 2 = 0 THEN q ELSE q + 1

\* _weight_kg in hundredths of a kilogram: round(pounds * 0.45359237, 2).
\* pounds * 45359237 / 10^(6 + dec), with 45359237 = 45359 * 1000 + 237.
WeightKg(pounds) ==
    LET pounds_value == ParseFloat(pounds)
    IN  IF pounds_value = None THEN None
        ELSE Some(RoundQuotient(pounds_value[1].mant * 45359,
                                pounds_value[1].mant * 237,
                                Pow10(3 + pounds_value[1].dec)))

\* No onboarding form in flight.
ObIdle ==
    /\ obInput = <<>>
    /\ obStatus = 0
    /\ obHeight = None
    /\ obWeight = None

\* A submitted form: the height fields or the weight field.
ObInit ==
    /\ obInput \in {<<feet, inches>> : feet \in StringsUpTo(IntChars, MaxIntLen),
                                        inches \in StringsUpTo(IntChars, MaxIntLen)}
                   \cup {<<pounds>> : pounds \in StringsUpTo(FloatChars, MaxFloatLen)}
    /\ obStatus = 0
    /\ obHeight = None
    /\ obWeight = None

\* submit_onboarding: the height_cm of the profile row.
ConvertHeight ==
    /\ obStatus = 0
    /\ Len(obInput) = 2
    /\ obHeight' = HeightCm(obInput[1], obInput[2])
    /\ obStatus' = 200
    /\ UNCHANGED <<obInput, obWeight>>
    /\ UNCHANGED <<ckVars, prVars, fdVars, chVars, xtVars>>

\* submit_onboarding: the weight_kg of the profile row.
ConvertWeight ==
    /\ obStatus = 0
    /\ Len(obInput) = 1
    /\ obWeight' = WeightKg(obInput[1])
    /\ obStatus' = 200
    /\ UNCHANGED <<obInput, obHeight>>
    /\ UNCHANGED <<ckVars, prVars, fdVars, chVars, xtVars>>

----------------------------------------------------------------------------
(* Coach chat: routers/chat.py *)

\* _executor = ThreadPoolExecutor(max_workers=4)
ExecutorWorkers == 4
\* _get_recent_messages(supabase, payload.thread_id, 12)
HistoryLimit == 12
MAX_COACH_WORDS_SHORT == 120

\* The message texts a client sends: a confirmation phrase, which is an
\* ordinary message while nothing is pending, and a workout request.
Contents == {"yes", "build a leg workout"}
\* The message texts of a conversation about macro targets.
ThreadContents == {"hi", "yes"}

\* _is_action_confirmation on the texts of the model: "yes" matches the
\* fullmatch pattern, the other texts contain no confirmation phrase.
IsActionConfirmation(text) == text \in {"yes"}

\* _is_workout_request on the texts of the model: a workout keyword together
\* with an action keyword.
IsWorkoutRequest(text) == text \in {"build a leg workout"}

\* The moderation API's answers: `results` empty or not, results[0].flagged,
\* and the categories reported true, in the order of the categories dict.
\* The API reports flagged exactly when some category is true.
ModResponses ==
    { [results |-> FALSE, flagged |-> FALSE, categories |-> <<>>],
      [results |-> TRUE, flagged |-> FALSE, categories |-> <<>>],
      [results |-> TRUE, flagged |-> TRUE, categories |-> <<"violence">>],
      [results |-> TRUE, flagged |-> TRUE, categories |-> <<"self-harm">>] }

ModerateText(response) ==
    IF ~response.results THEN <<>>
    ELSE IF ~response.flagged THEN <<>>
    ELSE response.categories

BuildRefusal(flags) ==
    IF \E i \in 1..Len(flags) : flags[i] \in {"self-harm", "self_harm"}
    THEN "Reply: I can't help with that. If you're in danger, contact a local professional or emergency service."
    ELSE "Reply: I can't help with that. I can help with training, nutrition, recovery, and your plan."

\* A mutation of ShortCircuit: one flag alone does not stop the request.
ShortCircuitOnSeveral(flags) == Len(flags) > 1

\* `if flags:` on the list returned by the moderation task.
ShortCircuit(flags) == Len(flags) > 0

SixSentences == "Go. Eat. Lift. Rest. Sleep. Repeat."

\* _trim_coach_reply on the texts of the model: only SixSentences has more
\* than two sentences, and no text comes near the word limit.
TrimCoachReply(text, max_words, max_sentences) ==
    IF text # SixSentences \/ max_sentences >= 6 THEN text
    ELSE IF max_sentences >= 5 THEN "Go. Eat. Lift. Rest. Sleep."
    ELSE "Go. Eat."

\* The `choice` of a chat completion: message.content, finish_reason and at
\* most one tool call with its parsed arguments.
NoArgs == [action_type |-> "", title |-> None, macros |-> <<>>]
MacroArgs(protein) ==
    [action_type |-> "update_macros", title |-> None, macros |-> [k \in {"protein"} |-> protein]]
Choices ==
    { [content |-> SixSentences, finish_reason |-> "stop", tool |-> "", args |-> NoArgs],
      [content |-> "[DONE]", finish_reason |-> "stop", tool |-> "", args |-> NoArgs],
      [content |-> "Set protein to 150g.", finish_reason |-> "stop", tool |-> "", args |-> NoArgs],
      [content |-> "", finish_reason |-> "tool_calls", tool |-> "propose_app_action",
       args |-> MacroArgs(150)],
      [content |-> "", finish_reason |-> "tool_calls", tool |-> "generate_workout",
       args |-> NoArgs] }

\* What _create_coach_workout can come back with: the template and its
\* exercises written, nothing written (generation failed), or the template
\* written and a later insert failed.
WorkoutOutcomes ==
    { [success |-> TRUE, template |-> TRUE],
      [success |-> FALSE, template |-> FALSE],
      [success |-> FALSE, template |-> TRUE] }

\* No workout generation was asked for.
NoWorkout == [success |-> FALSE, template |-> FALSE]

\* A chat_messages insert: the row is written, or the call raises.
DbOutcomes == {"ok", "insert_raises"}

SafeInt(value, min_value, max_value) ==
    LET lo == IF value < min_value THEN min_value ELSE value
    IN  IF lo > max_value THEN max_value ELSE lo

BuildDefaultActionMessage(action_type) ==
    IF action_type = "update_macros"
    THEN "I can apply these macro targets in your app now. Want me to do it?"
    ELSE "I can update your workout split in your app now. Want me to apply it?"

\* _normalize_action_proposal: a fresh uuid on every call.  The split payload
\* of update_workout_split is left out: no input of the model proposes one.
NormalizeActionProposal(raw_args, uuid) ==
    IF raw_args.action_type \notin {"update_macros", "update_workout_split"} THEN None
    ELSE LET macros == [k \in (DOMAIN raw_args.macros) \cap MacroKeys |->
                            SafeInt(raw_args.macros[k], 0, 10000)]
             proposal == [id |-> uuid,
                          action_type |-> raw_args.action_type,
                          title |-> IF raw_args.title = None THEN "Coach update"
                                    ELSE raw_args.title[1],
                          confirmation_prompt |-> BuildDefaultActionMessage(raw_args.action_type),
                          macros |-> macros]
         IN  IF raw_args.action_type = "update_macros" /\ DOMAIN macros = {} THEN None
             ELSE Some(proposal)

\* The stored proposal as _parse_message_metadata hands it back.
StoredArgs(proposal) ==
    [action_type |-> proposal.action_type, title |-> Some(proposal.title),
     macros |-> proposal.macros]

DigitStr(d) ==
    CASE d = 0 -> "0" [] d = 1 -> "1" [] d = 2 -> "2" [] d = 3 -> "3" [] d = 4 -> "4"
      [] d = 5 -> "5" [] d = 6 -> "6" [] d = 7 -> "7" [] d = 8 -> "8" [] OTHER -> "9"

RECURSIVE IntStr(_)
IntStr(n) == IF n < 10 THEN DigitStr(n) ELSE IntStr(n \div 10) \o DigitStr(n % 10)

MacroPart(key, value) ==
    IF key = "calories" THEN IntStr(value) \o " kcal" ELSE IntStr(value) \o "g " \o key

RECURSIVE JoinParts(_, _)
JoinParts(keys, macros) ==
    IF keys = <<>> THEN ""
    ELSE LET rest == JoinParts(Tail(keys), macros)
         IN  IF Head(keys) \notin DOMAIN macros THEN rest
             ELSE IF rest = "" THEN MacroPart(Head(keys), macros[Head(keys)])
             ELSE MacroPart(Head(keys), macros[Head(keys)]) \o ", " \o rest

BuildActionExecutionReply(action_proposal) ==
    IF action_proposal.action_type = "update_macros"
    THEN IF DOMAIN action_proposal.macros # {}
         THEN "On it. Applying your macro targets now: "
                \o JoinParts(<<"calories", "protein", "carbs", "fats">>, action_proposal.macros)
                \o "."
         ELSE "On it. Applying your macro targets in your app now."
    ELSE "On it. Applying your split update in your app now."

AssistantMetadata(workout_result, action_proposal) ==
    IF workout_result = None /\ action_proposal = None THEN None
    ELSE Some([workout_created |-> workout_result, coach_action_proposal |-> action_proposal])

UserRow(content, n) ==
    [role |-> "user", content |-> content, req |-> n, safety_flags |-> <<>>,
     metadata |-> None]

AssistantRow(content, n, flags, metadata) ==
    [role |-> "assistant", content |-> content, req |-> n, safety_flags |-> flags,
     metadata |-> metadata]

\* select role,content,metadata ... order created_at desc limit N, reversed.
GetRecentMessages(msgs, limit) ==
    LET n == Len(msgs)
        first == IF n > limit THEN n - limit + 1 ELSE 1
    IN  [i \in 1..(n - first + 1) |->
            [role |-> msgs[first + i - 1].role,
             content |-> msgs[first + i - 1].content,
             metadata |-> msgs[first + i - 1].metadata]]

RECURSIVE LatestProposalFrom(_, _, _)
LatestProposalFrom(history_rows, i, uuid) ==
    IF i = 0 THEN None
    ELSE LET row == history_rows[i]
             older == LatestProposalFrom(history_rows, i - 1, uuid)
         IN  IF row.role # "assistant" THEN older
             ELSE IF row.metadata = None THEN older
             ELSE IF row.metadata[1].coach_action_proposal = None THEN older
             ELSE LET normalized ==
                        NormalizeActionProposal(
                            StoredArgs(row.metadata[1].coach_action_proposal[1]), uuid)
                  IN  IF normalized # None THEN normalized ELSE older

ExtractLatestActionProposal(history_rows, uuid) ==
    LatestProposalFrom(history_rows, Len(history_rows), uuid)

\* Every content of the model is a string, so only the role filters.
HistoryForModel(history_rows) ==
    LET kept == SelectSeq(history_rows, LAMBDA row : row.role \in {"user", "assistant"})
    IN  [i \in 1..Len(kept) |-> [role |-> kept[i].role, content |-> kept[i].content]]

\* A mutation of DropEchoedUserMessage: every copy of the incoming message goes.
DropEveryEcho(history, content) ==
    SelectSeq(history, LAMBDA m : ~(m.role = "user" /\ m.content = content))

\* "Remove duplicate user message from history if present"
DropEchoedUserMessage(history, content) ==
    IF history # <<>>
       /\ history[Len(history)].role = "user"
       /\ history[Len(history)].content = content
    THEN SubSeq(history, 1, Len(history) - 1)
    ELSE history


\* _is_macro_related_text on the texts the model stores: which of them hold
\* one of the trigger words.
IsMacroRelatedText(text) ==
    text \in {"Set protein to 150g.",
              "I can apply these macro targets in your app now. Want me to do it?",
              "On it. Applying your macro targets now: 150g protein."}

\* The gram targets _extract_macro_candidates finds in a text of the model;
\* none of the texts holds a percentage or a calorie figure.
ExtractGrams(text) ==
    IF text \in {"Set protein to 150g.",
                 "On it. Applying your macro targets now: 150g protein."}
    THEN [k \in {"protein"} |-> 150]
    ELSE [k \in {} |-> 0]

Reversed(seq) == [i \in 1..Len(seq) |-> seq[Len(seq) + 1 - i]]

\* dict.update
Updated(f, g) ==
    [k \in (DOMAIN f) \cup (DOMAIN g) |-> IF k \in DOMAIN g THEN g[k] ELSE f[k]]

RECURSIVE CombinedGrams(_)
CombinedGrams(sources) ==
    IF sources = <<>> THEN [k \in {} |-> 0]
    ELSE Updated(CombinedGrams(SubSeq(sources, 1, Len(sources) - 1)),
                 ExtractGrams(sources[Len(sources)]))

\* _coalesce_macro_action_from_history, for a user whose context carries no
\* macro_targets.
CoalesceMacroActionFromHistory(user_text, history_rows, uuid) ==
    LET texts == Reversed(SelectSeq(history_rows,
                     LAMBDA row : row.role = "assistant" /\ row.content # ""))
    IN  IF texts = <<>> THEN None
        ELSE LET latest == texts[1].content
                 more == SelectSeq(texts,
                            LAMBDA row : row.content # latest /\ IsMacroRelatedText(row.content))
                 extra == [i \in 1..(IF Len(more) > 2 THEN 2 ELSE Len(more)) |-> more[i].content]
                 grams == CombinedGrams(<<user_text, latest>> \o extra)
             IN  IF ~IsMacroRelatedText(latest) THEN None
                 ELSE IF DOMAIN grams = {} THEN None
                 ELSE NormalizeActionProposal(
                          [action_type |-> "update_macros",
                           title |-> Some("Update Macro Targets"),
                           macros |-> grams], uuid)

WorkoutResult(outcome) == [success |-> outcome.success]

\* _run_tool_calls: <<assistant_text, workout_result, action_proposal>>.
RunToolCalls(choice, outcome, uuid) ==
    IF choice.finish_reason # "tool_calls" \/ choice.tool = ""
    THEN [text |-> choice.content, workout |-> None, proposal |-> None]
    ELSE IF choice.tool = "generate_workout"
    THEN [text |-> IF outcome.success
                   THEN "It's live in your workout view. Go check it out."
                   ELSE "Workout failed. Tell me your goal and equipment.",
          workout |-> Some(WorkoutResult(outcome)), proposal |-> None]
    ELSE IF choice.tool = "propose_app_action"
    THEN LET proposal == NormalizeActionProposal(choice.args, uuid)
         IN  IF proposal # None
             THEN [text |-> proposal[1].confirmation_prompt, workout |-> None,
                   proposal |-> proposal]
             ELSE [text |-> choice.content, workout |-> None, proposal |-> None]
    ELSE [text |-> choice.content, workout |-> None, proposal |-> None]

\* One `data: ...` event of a text/event-stream body.  A coach_action event
\* carries json.dumps({"type": "coach_action", "action": ...}).
TextEvent(text) == [data |-> text, action |-> None]
ActionEvent(proposal) == [data |-> "{coach_action}", action |-> Some(proposal)]
DoneEvent == TextEvent("[DONE]")

NoResponse == [status |-> 0, reply |-> "", coach_action |-> None, workout_created |-> None]
JsonResponse(reply, workout, action) ==
    [status |-> 200, reply |-> reply, coach_action |-> action, workout_created |-> workout]
ErrorResponse(code) ==
    [status |-> code, reply |-> "", coach_action |-> None, workout_created |-> None]
\* StreamingResponse(generator, media_type="text/event-stream")
StreamingResponse == JsonResponse("", None, None)

\* ThreadPoolExecutor.submit: a free worker takes the task, else it queues.
RECURSIVE SubmitAll(_, _, _)
SubmitAll(running, queue, tasks) ==
    IF tasks = <<>> THEN <<running, queue>>
    ELSE IF Cardinality(running) < ExecutorWorkers /\ queue = <<>>
    THEN SubmitAll(running \cup {Head(tasks)}, queue, Tail(tasks))
    ELSE SubmitAll(running, Append(queue, Head(tasks)), Tail(tasks))

\* The tasks post_message hands to the executor, in submission order.
RequestTasks ==
    <<"moderation", "context", "history", "summary", "ensure_user", "insert_user">>

\* A worker finishes its task and takes the next one off the queue.
WorkerDone(task) ==
    /\ task \in chRunning
    /\ chRunning' = (chRunning \ {task}) \cup (IF chQueue = <<>> THEN {} ELSE {Head(chQueue)})
    /\ chQueue' = IF chQueue = <<>> THEN <<>> ELSE Tail(chQueue)

ExecutorIdle == chRunning = {} /\ chQueue = <<>>

\* chat_messages insert followed by _touch_thread.
InsertMessage(row, db) ==
    /\ chMsgs' = IF db = "insert_raises" THEN chMsgs ELSE Append(chMsgs, row)
    /\ chTouched' = IF db = "ok" THEN chTouched + 1 ELSE chTouched

ChInit ==
    /\ chMsgs = <<>>
    /\ chTouched = 0
    /\ chUser = FALSE
    /\ chTemplates = 0
    /\ chUuid = 0
    /\ chN = 0
    /\ chContent = ""
    /\ chStream = FALSE
    /\ chPc = "idle"
    /\ chRunning = {}
    /\ chQueue = <<>>
    /\ chFlags = None
    /\ chRows = None
    /\ chCtx = FALSE
    /\ chSum = FALSE
    /\ chHistory = <<>>
    /\ chProposal = None
    /\ chCompletions = 0
    /\ chEvents = <<>>
    /\ chStreamState = "none"
    /\ chResp = NoResponse

chOthers == <<ckVars, prVars, fdVars, obVars, xtVars>>

\* uuid.uuid4(): a value no earlier call has returned.
Uuid4 == <<chN, chUuid + 1>>

\* POST /message with blank content: 400 before anything is touched.
PostBlank ==
    /\ chPc \in {"idle", "done"}
    /\ ExecutorIdle
    /\ chN < MaxRequests
    /\ chN' = chN + 1
    /\ chContent' = " "
    /\ chStream' = FALSE
    /\ chPc' = "done"
    /\ chFlags' = None /\ chRows' = None /\ chCtx' = FALSE /\ chSum' = FALSE
    /\ chHistory' = <<>> /\ chProposal' = None /\ chCompletions' = 0
    /\ chEvents' = <<>> /\ chStreamState' = "none"
    /\ chResp' = ErrorResponse(400)
    /\ chTemplates' = 0 /\ chUuid' = 0
    /\ UNCHANGED <<chMsgs, chTouched, chUser, chExec, chOthers>>

\* post_message up to `flags = await moderation_future`: the six tasks go to
\* the executor.  The client sends its next message once the previous one has
\* been answered and the executor has drained.
StartRequest(content, stream) ==
    /\ chPc \in {"idle", "done"}
    /\ ExecutorIdle
    /\ chN' = chN + 1
    /\ chContent' = content
    /\ chStream' = stream
    /\ chPc' = "await_moderation"
    /\ chRunning' = SubmitAll(chRunning, chQueue, RequestTasks)[1]
    /\ chQueue' = SubmitAll(chRunning, chQueue, RequestTasks)[2]
    /\ chFlags' = None /\ chRows' = None /\ chCtx' = FALSE /\ chSum' = FALSE
    /\ chHistory' = <<>> /\ chProposal' = None /\ chCompletions' = 0
    /\ chEvents' = <<>> /\ chStreamState' = "none"
    /\ chResp' = NoResponse
    /\ chTemplates' = 0 /\ chUuid' = 0
    /\ UNCHANGED <<chMsgs, chTouched, chUser, chOthers>>

\* A request of a client that may or may not ask for an event stream.
PostMessage(content, stream) == chN < MaxRequests /\ StartRequest(content, stream)

\* One turn of a conversation with a client that does not stream.
PostTurn(content) == chN < MaxTurns /\ StartRequest(content, FALSE)

\* ---- executor tasks

ModerationDone(response) ==
    /\ WorkerDone("moderation")
    /\ chFlags' = Some(ModerateText(response))
    /\ UNCHANGED <<chStore, chRows, chCtx, chSum, chReq, chLocal, chOut, chOthers>>

ContextDone ==
    /\ WorkerDone("context")
    /\ chCtx' = TRUE
    /\ UNCHANGED <<chStore, chFlags, chRows, chSum, chReq, chLocal, chOut, chOthers>>

HistoryDone ==
    /\ WorkerDone("history")
    /\ chRows' = Some(GetRecentMessages(chMsgs, HistoryLimit))
    /\ UNCHANGED <<chStore, chFlags, chCtx, chSum, chReq, chLocal, chOut, chOthers>>

SummaryDone ==
    /\ WorkerDone("summary")
    /\ chSum' = TRUE
    /\ UNCHANGED <<chStore, chFlags, chRows, chCtx, chReq, chLocal, chOut, chOthers>>

EnsureUserDone ==
    /\ WorkerDone("ensure_user")
    /\ chUser' = TRUE
    /\ UNCHANGED <<chMsgs, chTouched, chTemplates, chUuid, chFut, chReq, chLocal, chOut,
                   chOthers>>

\* insert_user_message: the user's row and the thread touch.
InsertUserDone ==
    /\ WorkerDone("insert_user")
    /\ InsertMessage(UserRow(chContent, chN), "ok")
    /\ UNCHANGED <<chUser, chTemplates, chUuid, chFut, chReq, chLocal, chOut, chOthers>>


\* ---- the request's coroutine and its streaming generators

\* `flags = await moderation_future` has returned.
Moderated == chPc = "await_moderation" /\ chFlags # None

\* if flags: the refusal is stored and the handler returns.
Refusal(db) ==
    /\ Moderated
    /\ ShortCircuit(chFlags[1])
    /\ InsertMessage(AssistantRow(BuildRefusal(chFlags[1]), chN, chFlags[1], None), db)
    /\ IF db # "ok"
       THEN chPc' = "done" /\ chResp' = ErrorResponse(500) /\ chStreamState' = "none"
       ELSE IF chStream
       THEN chPc' = "refusal_stream" /\ chResp' = StreamingResponse
            /\ chStreamState' = "open"
       ELSE chPc' = "done" /\ chResp' = JsonResponse(BuildRefusal(chFlags[1]), None, None)
            /\ chStreamState' = "none"
    /\ UNCHANGED <<chUser, chTemplates, chUuid, chExec, chFut, chReq, chHistory, chProposal,
                   chCompletions, chEvents, chOthers>>

RefusalStream ==
    /\ chPc = "refusal_stream"
    /\ chEvents' = <<TextEvent(BuildRefusal(chFlags[1])), DoneEvent>>
    /\ chStreamState' = "closed"
    /\ chPc' = "done"
    /\ UNCHANGED <<chStore, chExec, chFut, chReq, chHistory, chProposal, chCompletions,
                   chResp, chOthers>>

WorkoutText(outcome) ==
    IF outcome.success THEN "It's live in your workout view. Go check it out."
    ELSE "Workout failed. Tell me your goal and equipment."

\* if workout_request and not payload.stream
WorkoutReply(outcome, db) ==
    /\ Moderated
    /\ ~ShortCircuit(chFlags[1])
    /\ IsWorkoutRequest(chContent) /\ ~chStream
    /\ chTemplates' = chTemplates + (IF outcome.template THEN 1 ELSE 0)
    /\ LET text == TrimCoachReply(WorkoutText(outcome), MAX_COACH_WORDS_SHORT, 2)
       IN  /\ InsertMessage(AssistantRow(text, chN, <<>>,
                  Some([workout_created |-> Some(WorkoutResult(outcome)),
                        coach_action_proposal |-> None])), db)
           /\ chResp' = IF db = "ok"
                        THEN JsonResponse(text, Some(WorkoutResult(outcome)), None)
                        ELSE ErrorResponse(500)
    /\ chPc' = "done"
    /\ UNCHANGED <<chUser, chUuid, chExec, chFut, chReq, chHistory, chProposal, chCompletions,
                   chEvents, chStreamState, chOthers>>

\* if workout_request and payload.stream: the generator is handed back.
WorkoutStreamReturned ==
    /\ Moderated
    /\ ~ShortCircuit(chFlags[1])
    /\ IsWorkoutRequest(chContent) /\ chStream
    /\ chPc' = "stream_workout"
    /\ chStreamState' = "open"
    /\ chResp' = StreamingResponse
    /\ UNCHANGED <<chStore, chExec, chFut, chReq, chHistory, chProposal, chCompletions,
                   chEvents, chOthers>>

StreamWorkoutResponse(outcome, db) ==
    /\ chPc = "stream_workout"
    /\ chTemplates' = chTemplates + (IF outcome.template THEN 1 ELSE 0)
    /\ LET head == "One moment while I build your workout."
           tail == " " \o WorkoutText(outcome)
       IN  /\ InsertMessage(AssistantRow(head \o tail, chN, <<>>,
                  Some([workout_created |-> Some(WorkoutResult(outcome)),
                        coach_action_proposal |-> None])), db)
           /\ chEvents' = <<TextEvent(head), TextEvent(tail)>>
                            \o (IF db = "ok" THEN <<DoneEvent>> ELSE <<>>)
    /\ chStreamState' = "closed"
    /\ chPc' = "done"
    /\ UNCHANGED <<chUser, chUuid, chExec, chFut, chReq, chHistory, chProposal, chCompletions,
                   chResp, chOthers>>

\* A join that waited for the history rows only.
JoinedHistoryOnly == chRows # None

\* asyncio.gather returns once the context, history and summary futures all
\* hold a result.
Joined == chCtx /\ chSum /\ chRows # None

\* await asyncio.gather(context_future, history_future, summary_future), then
\* the proposal lookup, the history for the model and the choice of a reply.
Gather ==
    /\ Moderated
    /\ ~ShortCircuit(chFlags[1])
    /\ ~IsWorkoutRequest(chContent)
    /\ Joined
    /\ LET history_rows == chRows[1]
           latest_action_proposal == ExtractLatestActionProposal(history_rows, Uuid4)
           confirms == IsActionConfirmation(chContent)
           inferred == IF latest_action_proposal = None /\ confirms
                       THEN CoalesceMacroActionFromHistory(chContent, history_rows, Uuid4)
                       ELSE None
           branch == IF latest_action_proposal # None /\ confirms THEN "confirm"
                     ELSE IF inferred # None THEN "inferred"
                     ELSE "model"
       IN  /\ chHistory' = DropEchoedUserMessage(HistoryForModel(history_rows), chContent)
           /\ chProposal' = IF branch = "confirm" THEN latest_action_proposal
                            ELSE IF branch = "inferred" THEN inferred
                            ELSE None
           /\ chUuid' = chUuid + (IF latest_action_proposal # None \/ inferred # None
                                  THEN 1 ELSE 0)
           /\ chPc' = IF chStream THEN "stream_" \o branch ELSE branch
           /\ chStreamState' = IF chStream THEN "open" ELSE "none"
           /\ chResp' = IF chStream THEN StreamingResponse ELSE NoResponse
    /\ UNCHANGED <<chMsgs, chTouched, chUser, chTemplates, chExec, chFut, chReq,
                   chCompletions, chEvents, chOthers>>

ExecutionText == TrimCoachReply(BuildActionExecutionReply(chProposal[1]),
                                MAX_COACH_WORDS_SHORT, 2)

ConfirmationRow ==
    AssistantRow(ExecutionText, chN, <<>>, AssistantMetadata(None, chProposal))

\* The reply to a confirmation, as a JSON body.
ConfirmationJson(db) ==
    /\ InsertMessage(ConfirmationRow, db)
    /\ chResp' = IF db = "ok" THEN JsonResponse(ExecutionText, None, chProposal)
                 ELSE ErrorResponse(500)
    /\ chPc' = "done"
    /\ UNCHANGED <<chUser, chTemplates, chUuid, chExec, chFut, chReq, chHistory, chProposal,
                   chCompletions, chEvents, chStreamState, chOthers>>

\* The reply to a confirmation, as an event stream.
ConfirmationEvents(db) ==
    /\ InsertMessage(ConfirmationRow, db)
    /\ chEvents' = <<TextEvent(ExecutionText), ActionEvent(chProposal[1])>>
                     \o (IF db = "ok" THEN <<DoneEvent>> ELSE <<>>)
    /\ chStreamState' = "closed"
    /\ chPc' = "done"
    /\ UNCHANGED <<chUser, chTemplates, chUuid, chExec, chFut, chReq, chHistory, chProposal,
                   chCompletions, chResp, chOthers>>

\* if latest_action_proposal and _is_action_confirmation(payload.content)
ConfirmReply(db) == chPc = "confirm" /\ ConfirmationJson(db)
StreamActionConfirmation(db) == chPc = "stream_confirm" /\ ConfirmationEvents(db)

\* if _is_action_confirmation(payload.content) and a proposal can be inferred
InferredReply(db) == chPc = "inferred" /\ ConfirmationJson(db)
StreamInferredActionConfirmation(db) == chPc = "stream_inferred" /\ ConfirmationEvents(db)


\* uuid4 values _run_tool_calls draws for a choice.
UuidsDrawn(choice) ==
    IF choice.finish_reason = "tool_calls" /\ choice.tool = "propose_app_action"
       /\ choice.args.action_type \in {"update_macros", "update_workout_split"}
    THEN 1 ELSE 0

\* The outcomes of the workout generation a choice triggers.
OutcomesOf(choice) ==
    IF choice.finish_reason = "tool_calls" /\ choice.tool = "generate_workout"
    THEN WorkoutOutcomes
    ELSE {NoWorkout}

\* SHORT reply mode: no content of the model asks for a detailed reply.
ModelText(choice, outcome) ==
    TrimCoachReply(RunToolCalls(choice, outcome, Uuid4).text, MAX_COACH_WORDS_SHORT, 5)

ModelRow(choice, outcome) ==
    LET result == RunToolCalls(choice, outcome, Uuid4)
    IN  AssistantRow(ModelText(choice, outcome), chN, <<>>,
                     AssistantMetadata(result.workout, result.proposal))

\* client.chat.completions.create raises.
CompletionFails ==
    /\ chPc = "model"
    /\ chCompletions' = chCompletions + 1
    /\ chResp' = ErrorResponse(500)
    /\ chPc' = "done"
    /\ UNCHANGED <<chStore, chExec, chFut, chReq, chHistory, chProposal, chEvents,
                   chStreamState, chOthers>>

\* if not payload.stream: completion, tool calls, trim, insert, JSON body.
ModelReply(choice, outcome, db) ==
    /\ chPc = "model"
    /\ chCompletions' = chCompletions + 1
    /\ chUuid' = chUuid + UuidsDrawn(choice)
    /\ chTemplates' = chTemplates + (IF outcome.template THEN 1 ELSE 0)
    /\ InsertMessage(ModelRow(choice, outcome), db)
    /\ LET result == RunToolCalls(choice, outcome, Uuid4)
       IN  chResp' = IF db = "ok"
                     THEN JsonResponse(ModelText(choice, outcome), result.workout,
                                       result.proposal)
                     ELSE ErrorResponse(500)
    /\ chPc' = "done"
    /\ UNCHANGED <<chUser, chExec, chFut, chReq, chHistory, chProposal, chEvents,
                   chStreamState, chOthers>>

\* stream_response when the completion call raises: the body ends empty.
StreamCompletionFails ==
    /\ chPc = "stream_model"
    /\ chCompletions' = chCompletions + 1
    /\ chStreamState' = "closed"
    /\ chPc' = "done"
    /\ UNCHANGED <<chStore, chExec, chFut, chReq, chHistory, chProposal, chEvents, chResp,
                   chOthers>>

\* stream_response: completion, tool calls, trim, the text event, the
\* coach_action event, insert, [DONE].
StreamResponse(choice, outcome, db) ==
    /\ chPc = "stream_model"
    /\ chCompletions' = chCompletions + 1
    /\ chUuid' = chUuid + UuidsDrawn(choice)
    /\ chTemplates' = chTemplates + (IF outcome.template THEN 1 ELSE 0)
    /\ InsertMessage(ModelRow(choice, outcome), db)
    /\ LET result == RunToolCalls(choice, outcome, Uuid4)
       IN  chEvents' = <<TextEvent(ModelText(choice, outcome))>>
                         \o (IF result.proposal # None
                             THEN <<ActionEvent(result.proposal[1])>> ELSE <<>>)
                         \o (IF db = "ok" THEN <<DoneEvent>> ELSE <<>>)
    /\ chStreamState' = "closed"
    /\ chPc' = "done"
    /\ UNCHANGED <<chUser, chExec, chFut, chReq, chHistory, chProposal, chResp, chOthers>>

----------------------------------------------------------------------------
(* Accounts: routers/auth.py *)

Emails == {"ann@fit.io", "bob@fit.io"}
Passwords == {"pw1", "pw2"}

\* hashlib.sha256(password).hexdigest(), by its first eight digits.
Sha256Hex(password) ==
    CASE password = "pw1" -> "c592df4a"
      [] password = "pw2" -> "93915a0a"
      [] password = "u1" -> "bb82030d"
      [] password = "placeholder" -> "40978892"
      [] password = "23ab2e26-3205-588a-b49e-61696c7972f5" -> "78cb4ffe"
      [] password = "7f3c2a10-0000-4000-8000-000000000001" -> "091f5c4b"

NoAuthResponse == [op |-> "", email |-> "", password |-> "", status |-> 0, user_id |-> None]

AuInit ==
    /\ auUsers = <<>>
    /\ auResp = NoAuthResponse

auOthers == <<ckVars, prVars, fdVars, obVars, chVars, dcVars, tpVars, lgVars, erVars, trVars, jbVars, thVars, ukVars, fsVars, npVars>>

\* register: a fresh uuid4 and one insert, with no lookup of the email; an
\* insert that raises gives HTTP 500.
Register(email, password, db) ==
    /\ Len(auUsers) < MaxUsers
    /\ LET user_id == Len(auUsers) + 1
       IN  IF db = "ok"
           THEN /\ auUsers' = Append(auUsers, [id |-> user_id, email |-> email,
                                              hashed_password |-> Sha256Hex(password)])
                /\ auResp' = [op |-> "register", email |-> email, password |-> password,
                              status |-> 200, user_id |-> Some(user_id)]
           ELSE /\ auUsers' = auUsers
                /\ auResp' = [op |-> "register", email |-> email, password |-> password,
                              status |-> 500, user_id |-> None]
    /\ UNCHANGED auOthers

\* login: .eq("email", ...).limit(1) with no order, so the datastore returns
\* any one of the rows with that email; 401 when there is none or when its
\* digest differs.
Login(email, password) ==
    /\ LET matching == {i \in DOMAIN auUsers : auUsers[i].email = email}
       IN  IF matching = {}
           THEN auResp' = [op |-> "login", email |-> email, password |-> password,
                           status |-> 401, user_id |-> None]
           ELSE \E i \in matching :
                   auResp' = [op |-> "login", email |-> email, password |-> password,
                              status |-> IF auUsers[i].hashed_password = Sha256Hex(password)
                                         THEN 200 ELSE 401,
                              user_id |-> IF auUsers[i].hashed_password = Sha256Hex(password)
                                          THEN Some(auUsers[i].id) ELSE None]
    /\ UNCHANGED auUsers
    /\ UNCHANGED auOthers

----------------------------------------------------------------------------
(* Daily check-in: routers/daily_checkin.py *)

DailyUsers == {"u1", "u2"}
TrainingStatuses == {"trained", "off_day"}
SleepQualities == {"good", "okay", "poor"}

\* _generate_local_response: random.choice over the list of the branch
\* (the first two texts of each list).
LocalResponses(hit_macros, training_status, sleep_quality) ==
    LET trained == training_status = "trained"
        good_sleep == sleep_quality = "good"
    IN  IF hit_macros /\ trained /\ good_sleep
        THEN {"Perfect day yesterday! Keep that energy going today.",
              "You're crushing it! Consistency like this builds champions."}
        ELSE IF hit_macros /\ trained
        THEN {"Great work on training and nutrition! Prioritize sleep tonight.",
              "Two out of three ain't bad! Rest up and keep building."}
        ELSE IF hit_macros
        THEN {"Nutrition on point! Rest day recovery is important too.",
              "Macros hit! Even rest days are progress days."}
        ELSE IF trained
        THEN {"Great workout! Let's dial in those macros today.",
              "Training done! Fuel that body right and watch the gains come."}
        ELSE {"New day, fresh start! Let's make today count.",
              "Every day is a chance to build momentum. Let's go!"}

\* _generate_coach_response: the completion's sentence, or a local one when
\* the completion call raises.
CoachResponses(completed, hit_macros, training_status, sleep_quality) ==
    IF completed THEN {"Nice work showing up today, keep it rolling."}
    ELSE LocalResponses(hit_macros, training_status, sleep_quality)

NoDailyResponse ==
    [op |-> "", user_id |-> "", date |-> 0, streak_saved |-> FALSE, completed |-> FALSE]

DcInit ==
    /\ dcRows = <<>>
    /\ dcToday = 1
    /\ dcN = 0
    /\ dcSaved = {}
    /\ dcResp = NoDailyResponse

dcOthers == <<ckVars, prVars, fdVars, obVars, chVars, auVars, tpVars, lgVars, erVars, trVars, jbVars, thVars, ukVars, fsVars, npVars>>

\* submit_daily_checkin: the insert is wrapped in try/except pass, and the
\* response carries streak_saved = True whatever happened.
SubmitDailyCheckin(user_id, hit_macros, training_status, sleep_quality, completed, inserted) ==
    /\ dcN < MaxDaily
    /\ dcN' = dcN + 1
    /\ \E coach_response \in CoachResponses(completed, hit_macros, training_status, sleep_quality) :
          dcRows' = IF inserted
                    THEN Append(dcRows, [user_id |-> user_id, date |-> dcToday,
                                         hit_macros |-> hit_macros,
                                         training_status |-> training_status,
                                         sleep_quality |-> sleep_quality,
                                         coach_response |-> coach_response])
                    ELSE dcRows
    /\ dcSaved' = dcSaved \cup {<<user_id, dcToday>>}
    /\ dcResp' = [op |-> "submit", user_id |-> user_id, date |-> dcToday,
                  streak_saved |-> TRUE, completed |-> FALSE]
    /\ UNCHANGED <<dcToday, dcOthers>>

\* get_checkin_status: completed iff the select of today's rows of the user
\* returns a row; a select that raises gives completed = False.
GetCheckinStatus(user_id, selected) ==
    /\ dcResp' = [op |-> "status", user_id |-> user_id, date |-> dcToday,
                  streak_saved |-> FALSE,
                  completed |-> /\ selected
                                /\ \E i \in DOMAIN dcRows :
                                      dcRows[i].user_id = user_id /\ dcRows[i].date = dcToday]
    /\ UNCHANGED <<dcRows, dcToday, dcN, dcSaved, dcOthers>>

\* datetime.utcnow().date() moves to the next day.
Midnight ==
    /\ dcToday < MaxDays
    /\ dcToday' = dcToday + 1
    /\ UNCHANGED <<dcRows, dcN, dcSaved, dcResp, dcOthers>>

----------------------------------------------------------------------------
(* Workout templates: routers/workouts.py *)

\* ExerciseInput values: name, sets, reps, rest_seconds.
Squat == [name |-> "Squat", sets |-> None, reps |-> None, rest_seconds |-> None]
Bench == [name |-> "Bench", sets |-> Some(3), reps |-> Some(5), rest_seconds |-> Some(90)]
HeavySquat == [name |-> "Squat", sets |-> Some(5), reps |-> Some(0), rest_seconds |-> None]

\* The `exercises` lists a client sends.
ExerciseLists == {<<Squat>>, <<Bench, HeavySquat, Squat>>}

TemplateIds == 1..MaxTemplates

\* _get_or_create_exercise: the id of a row with that name (any of them,
\* limit(1)), else the id of the row it inserts.
ExerciseIds(table, name) ==
    IF \E i \in DOMAIN table : table[i] = name
    THEN {i \in DOMAIN table : table[i] = name}
    ELSE {Len(table) + 1}

\* The exercises table after _get_or_create_exercise for each of `list`.
RECURSIVE ExercisesAfter(_, _)
ExercisesAfter(table, list) ==
    IF list = <<>> THEN table
    ELSE ExercisesAfter(
            IF \E i \in DOMAIN table : table[i] = list[1].name THEN table
            ELSE Append(table, list[1].name),
            Tail(list))

ExerciseRowUnplaced(exercise_id, idx, exercise) ==
    [exercise_id |-> exercise_id, position |-> 0,
     sets |-> OrZero(exercise.sets), reps |-> OrZero(exercise.reps),
     rest_seconds |-> OrZero(exercise.rest_seconds)]

\* The workout_template_exercises row of payload.exercises[idx].
ExerciseRow(exercise_id, idx, exercise) ==
    [exercise_id |-> exercise_id, position |-> idx,
     sets |-> OrZero(exercise.sets), reps |-> OrZero(exercise.reps),
     rest_seconds |-> OrZero(exercise.rest_seconds)]

\* The rows the loop over enumerate(payload.exercises) inserts before it
\* ends or before the insert numbered `raised` raises (0: none raises).
InsertedRows(table, exercises, raised) ==
    LET after == ExercisesAfter(table, exercises)
        n == IF raised = 0 THEN Len(exercises) ELSE raised - 1
    IN  [i \in 1..n |->
            ExerciseRow(CHOOSE id \in ExerciseIds(after, exercises[i].name) : TRUE,
                        i - 1, exercises[i])]

\* .order("position"): the rows sorted by position, ties in any order.
OrderedByPosition(rows) ==
    {[i \in 1..Len(rows) |-> rows[perm[i]]] :
        perm \in {p \in [1..Len(rows) -> 1..Len(rows)] :
                    /\ \A i, j \in 1..Len(rows) : i # j => p[i] # p[j]
                    /\ \A i, j \in 1..Len(rows) :
                          i < j => rows[p[i]].position <= rows[p[j]].position}}

\* get_template_detail's `enriched` list for ordered rows.
Enriched(ordered) ==
    [i \in 1..Len(ordered) |->
        [exercise_id |-> ordered[i].exercise_id,
         name |-> IF ordered[i].exercise_id \in DOMAIN tpExercises
                  THEN tpExercises[ordered[i].exercise_id] ELSE "Unknown",
         sets |-> ordered[i].sets, reps |-> ordered[i].reps,
         rest_seconds |-> ordered[i].rest_seconds,
         position |-> ordered[i].position]]

TemplateResponse(op, template_id, status, detail, exercises) ==
    [op |-> op, template_id |-> template_id, status |-> status, detail |-> detail,
     exercises |-> exercises]

NotGiven == [by |-> "", exercises |-> <<>>]

TpInit ==
    /\ tpTemplates = <<>>
    /\ tpRows = <<>>
    /\ tpExercises = <<>>
    /\ tpGiven = <<>>
    /\ tpResp = TemplateResponse("", 0, 0, "", <<>>)

tpOthers == <<ckVars, prVars, fdVars, obVars, chVars, auVars, dcVars, lgVars, erVars, trVars, jbVars, thVars, ukVars, fsVars, npVars>>

\* create_template: the template row, then one row per exercise; when an
\* insert raises, HTTP 500 with what was written so far left in place.
CreateTemplate(exercises, raised) ==
    /\ Len(tpTemplates) < MaxTemplates
    /\ raised \in 0..Len(exercises)
    /\ LET template_id == Len(tpTemplates) + 1
       IN  /\ tpTemplates' = Append(tpTemplates, TRUE)
           /\ tpRows' = Append(tpRows, InsertedRows(tpExercises, exercises, raised))
           /\ tpExercises' = ExercisesAfter(tpExercises,
                                 SubSeq(exercises, 1, IF raised = 0 THEN Len(exercises) ELSE raised))
           /\ tpGiven' = Append(tpGiven, IF raised = 0
                                         THEN [by |-> "create", exercises |-> exercises]
                                         ELSE NotGiven)
           /\ tpResp' = IF raised = 0
                        THEN TemplateResponse("create", template_id, 200, "", <<>>)
                        ELSE TemplateResponse("create", 0, 500, "insert failed", <<>>)
    /\ UNCHANGED tpOthers

\* update_template: 404 when the update matches no row; else the rows of
\* the template are deleted and the new ones inserted one by one.
UpdateTemplate(template_id, exercises, raised) ==
    /\ raised \in 0..Len(exercises)
    /\ IF template_id \in DOMAIN tpTemplates /\ tpTemplates[template_id]
       THEN /\ tpRows' = [tpRows EXCEPT ![template_id] =
                             InsertedRows(tpExercises, exercises, raised)]
            /\ tpExercises' = ExercisesAfter(tpExercises,
                                  SubSeq(exercises, 1, IF raised = 0 THEN Len(exercises) ELSE raised))
            /\ tpGiven' = [tpGiven EXCEPT ![template_id] =
                              IF raised = 0 THEN [by |-> "update", exercises |-> exercises]
                              ELSE NotGiven]
            /\ tpResp' = IF raised = 0
                         THEN TemplateResponse("update", template_id, 200, "", <<>>)
                         ELSE TemplateResponse("update", template_id, 500, "insert failed", <<>>)
       ELSE /\ raised = 0
            /\ tpResp' = TemplateResponse("update", template_id, 404, "Template not found", <<>>)
            /\ UNCHANGED <<tpRows, tpExercises, tpGiven>>
    /\ UNCHANGED <<tpTemplates, tpOthers>>

\* get_template_detail: 404 without the template row, else the rows ordered
\* by position, each with the name of its exercise.
GetTemplateDetail(template_id) ==
    /\ IF template_id \in DOMAIN tpTemplates /\ tpTemplates[template_id]
       THEN \E ordered \in OrderedByPosition(tpRows[template_id]) :
               tpResp' = TemplateResponse("detail", template_id, 200, "", Enriched(ordered))
       ELSE tpResp' = TemplateResponse("detail", template_id, 404, "Template not found", <<>>)
    /\ UNCHANGED <<tpTemplates, tpRows, tpExercises, tpGiven, tpOthers>>

\* delete_template: 404 when the delete matches no row; the rows of
\* workout_template_exercises are not touched by the handler.
DeleteTemplate(template_id, deleted) ==
    /\ IF ~deleted
       THEN /\ tpResp' = TemplateResponse("delete", template_id, 500, "delete failed", <<>>)
            /\ UNCHANGED tpTemplates
       ELSE IF template_id \in DOMAIN tpTemplates /\ tpTemplates[template_id]
       THEN /\ tpTemplates' = [tpTemplates EXCEPT ![template_id] = FALSE]
            /\ tpResp' = TemplateResponse("delete", template_id, 200, "", <<>>)
       ELSE /\ tpResp' = TemplateResponse("delete", template_id, 404, "Template not found", <<>>)
            /\ UNCHANGED tpTemplates
    /\ UNCHANGED <<tpRows, tpExercises, tpGiven, tpOthers>>

\* duplicate_template: 404 without the source row; else a new template row
\* and a copy of each source row, read ordered by position.
DuplicateTemplate(template_id, raised) ==
    /\ IF template_id \in DOMAIN tpTemplates /\ tpTemplates[template_id]
       THEN /\ Len(tpTemplates) < MaxTemplates
            /\ raised \in 0..Len(tpRows[template_id])
            /\ \E ordered \in OrderedByPosition(tpRows[template_id]) :
                  tpRows' = Append(tpRows,
                      SubSeq(ordered, 1, IF raised = 0 THEN Len(ordered) ELSE raised - 1))
            /\ tpTemplates' = Append(tpTemplates, TRUE)
            /\ tpGiven' = Append(tpGiven,
                   IF raised = 0 /\ tpGiven[template_id].by # ""
                   THEN [by |-> "duplicate", exercises |-> tpGiven[template_id].exercises]
                   ELSE NotGiven)
            /\ tpResp' = IF raised = 0
                         THEN TemplateResponse("duplicate", Len(tpTemplates) + 1, 200, "", <<>>)
                         ELSE TemplateResponse("duplicate", 0, 500, "insert failed", <<>>)
       ELSE /\ raised = 0
            /\ tpResp' = TemplateResponse("duplicate", template_id, 404, "Template not found", <<>>)
            /\ UNCHANGED <<tpTemplates, tpRows, tpGiven>>
    /\ UNCHANGED <<tpExercises, tpOthers>>

----------------------------------------------------------------------------
(* Exercise logging on older schemas: routers/workouts.py *)

\* The columns of exercise_sets that older schemas may lack.
SetColumns == {"duration_seconds", "is_warmup", "set_index"}

\* The message of the exception the client raises for an unknown column:
\* Postgres names the relation, PostgREST answers from its schema cache,
\* and a bare message names the column only.
ErrorFormats == {"postgres", "postgrest", "bare"}
ColumnMessage(format, column, table) ==
    CASE format = "postgres" ->
            "column \"" \o column \o "\" of relation \"" \o table \o "\" does not exist"
      [] format = "postgrest" ->
            "Could not find the '" \o column \o "' column of '" \o table \o "' in the schema cache"
      [] format = "bare" -> "column \"" \o column \o "\" does not exist"
TableMessage(format, table) ==
    CASE format = "postgres" -> "relation \"public." \o table \o "\" does not exist"
      [] format = "postgrest" ->
            "Could not find the table 'public." \o table \o "' in the schema cache"
      [] format = "bare" -> "relation \"" \o table \o "\" does not exist"
OtherMessage == "connection reset by peer"

\* _is_missing_column_error: the message holds the column name, "column"
\* and "does not exist".
IsMissingColumnError(message, column_name) ==
    message \in {ColumnMessage(format, column_name, table) :
                    format \in {"postgres", "bare"},
                    table \in {"exercise_logs", "exercise_sets"}}

\* _is_missing_table_error: the message holds the table name and either
\* "does not exist" or "relation".
IsMissingTableError(message, table_name) ==
    message \in {ColumnMessage("postgres", column, table_name) :
                    column \in SetColumns \cup {"duration_minutes"}}
                \cup {TableMessage(format, table_name) : format \in {"postgres", "bare"}}

CurrentSchema == [logs_duration |-> TRUE, sets_table |-> TRUE, sets_missing |-> {}]
Schemas ==
    {[logs_duration |-> d, sets_table |-> t, sets_missing |-> m] :
        d \in BOOLEAN, t \in BOOLEAN, m \in SUBSET SetColumns}

\* What an insert of a row with these optional columns gives on the
\* deployed schema: "" when it succeeds, else the message of the exception.
InsertOutcomes(table, columns) ==
    LET missing == IF table = "exercise_logs"
                   THEN (IF lgSchema.logs_duration THEN {} ELSE {"duration_minutes"})
                   ELSE lgSchema.sets_missing
    IN  IF table = "exercise_sets" /\ ~lgSchema.sets_table
        THEN {TableMessage(lgFormat, table)}
        ELSE IF columns \cap missing # {}
        THEN {ColumnMessage(lgFormat, column, table) : column \in columns \cap missing}
        ELSE {""}

\* A strength log and a cardio log (SessionLogRequest).
LogPayloads ==
    {[exercise_name |-> "Squat", sets |-> 3, reps |-> 5, weight |-> 100,
      duration_minutes |-> None, duration_seconds |-> None, set_index |-> None],
     [exercise_name |-> "Run", sets |-> 1, reps |-> 0, weight |-> 0,
      duration_minutes |-> Some(30), duration_seconds |-> None, set_index |-> Some(2)]}

\* The exercise_logs insert with its retry: the row stored (None when the
\* request ends here) and the message of the exception that ends it.
LogInsertResults(payload) ==
    LET duration_minutes == OrZero(payload.duration_minutes)
        has_duration == duration_minutes > 0
        insert_payload ==
            [exercise_name |-> payload.exercise_name,
             sets |-> IF has_duration THEN 0 ELSE payload.sets,
             reps |-> IF has_duration THEN 0 ELSE payload.reps,
             weight |-> IF has_duration THEN 0 ELSE payload.weight,
             duration_minutes |-> Some(IF has_duration THEN duration_minutes ELSE 0)]
        fallback ==
            [insert_payload EXCEPT !.duration_minutes = None,
                                   !.reps = IF has_duration THEN duration_minutes ELSE @]
    IN  UNION {
          IF first = "" THEN {[row |-> Some(insert_payload), raised |-> ""]}
          ELSE IF ~IsMissingColumnError(first, "duration_minutes")
          THEN {[row |-> None, raised |-> first]}
          ELSE {IF second = "" THEN [row |-> Some(fallback), raised |-> ""]
                ELSE [row |-> None, raised |-> second] :
                  second \in InsertOutcomes("exercise_logs", {})} :
          first \in InsertOutcomes("exercise_logs", {"duration_minutes"})}

\* The first of the three columns the elif chain recognises in the message.
MissingSetColumn(message) ==
    IF IsMissingColumnError(message, "duration_seconds") THEN "duration_seconds"
    ELSE IF IsMissingColumnError(message, "is_warmup") THEN "is_warmup"
    ELSE IF IsMissingColumnError(message, "set_index") THEN "set_index"
    ELSE ""

\* The exercise_sets insert with its except chain: the columns of the row
\* stored (None when no row is stored) and the exception that is re-raised.
SetInsertResults ==
    UNION {
      IF first = "" THEN {[columns |-> Some(SetColumns), raised |-> ""]}
      ELSE IF IsMissingTableError(first, "exercise_sets")
      THEN {[columns |-> None, raised |-> ""]}
      ELSE IF MissingSetColumn(first) # ""
      THEN {IF second = ""
            THEN [columns |-> Some(SetColumns \ {MissingSetColumn(first)}), raised |-> ""]
            ELSE [columns |-> None, raised |-> second] :
              second \in InsertOutcomes("exercise_sets", SetColumns \ {MissingSetColumn(first)})}
      ELSE {[columns |-> None, raised |-> first]} :
      first \in InsertOutcomes("exercise_sets", SetColumns)}

NoLogResponse == [payload |-> <<>>, status |-> 0, log_id |-> None, detail |-> ""]

LgInit ==
    /\ lgSchema = CurrentSchema
    /\ lgFormat = "postgres"
    /\ lgN = 0
    /\ lgLogs = <<>>
    /\ lgSets = <<>>
    /\ lgResp = NoLogResponse

lgOthers == <<ckVars, prVars, fdVars, obVars, chVars, auVars, dcVars, tpVars, erVars, trVars, jbVars, thVars, ukVars, fsVars, npVars>>

\* The backend is deployed against a datastore with an older schema.
DeployOn(schema, format) ==
    /\ lgN = 0
    /\ lgSchema' = schema
    /\ lgFormat' = format
    /\ UNCHANGED <<lgN, lgLogs, lgSets, lgResp, lgOthers>>

\* log_exercise: the exercise_logs row, then the exercise_sets row; an
\* exception that no fallback handles gives HTTP 500 with its text.
LogExerciseOnSchema(payload, outage) ==
    /\ lgN < MaxLogRequests
    /\ lgN' = lgN + 1
    /\ IF outage
       THEN /\ lgResp' = [payload |-> payload, status |-> 500, log_id |-> None,
                          detail |-> OtherMessage]
            /\ UNCHANGED <<lgLogs, lgSets>>
       ELSE \E logged \in LogInsertResults(payload), set \in SetInsertResults :
               IF logged.raised # ""
               THEN /\ lgResp' = [payload |-> payload, status |-> 500, log_id |-> None,
                                  detail |-> logged.raised]
                    /\ UNCHANGED <<lgLogs, lgSets>>
               ELSE /\ lgLogs' = Append(lgLogs, logged.row[1])
                    /\ lgSets' = IF set.columns # None
                                 THEN Append(lgSets, [exercise_log_id |-> Len(lgLogs) + 1,
                                                      columns |-> set.columns[1]])
                                 ELSE lgSets
                    /\ lgResp' = IF set.raised # ""
                                 THEN [payload |-> payload, status |-> 500, log_id |-> None,
                                       detail |-> set.raised]
                                 ELSE [payload |-> payload, status |-> 200,
                                       log_id |-> Some(Len(lgLogs) + 1), detail |-> ""]
    /\ UNCHANGED <<lgSchema, lgFormat, lgOthers>>

----------------------------------------------------------------------------
(* HTTP errors of the handlers: routers/nutrition.py, routers/users.py *)

\* An exception raised inside a handler: fastapi's HTTPException carries a
\* status and a detail, any other exception a message.
HTTPException(status_code, detail) ==
    [http |-> TRUE, status_code |-> status_code, detail |-> detail]
DatastoreError == [http |-> FALSE, status_code |-> 0, detail |-> OtherMessage]
PromptError == [http |-> FALSE, status_code |-> 0, detail |-> "prompt failed"]

\* str(exc). For an HTTPException it depends on the installed Starlette:
\* "<status>: <detail>" where the class defines __str__, "" where it only
\* sets its attributes.
StrOfException(exc) ==
    IF ~exc.http THEN {exc.detail}
    ELSE {"", (CASE exc.status_code = 400 -> "400"
                 [] exc.status_code = 404 -> "404"
                 [] exc.status_code = 502 -> "502"
                 [] OTHER -> "500") \o ": " \o exc.detail}

\* The except clauses of a handler, in order: `except HTTPException: raise`
\* lets the exception through, `except Exception as exc` turns whatever it
\* catches into HTTPException(500, str(exc)).
Surface(exc, clauses) ==
    IF exc.http /\ clauses # <<>> /\ Head(clauses) = "HTTPException"
    THEN {[status |-> exc.status_code, detail |-> exc.detail]}
    ELSE IF clauses # <<>>
    THEN {[status |-> 500, detail |-> text] : text \in StrOfException(exc)}
    ELSE {[status |-> IF exc.http THEN exc.status_code ELSE 500,
           detail |-> IF exc.http THEN exc.detail ELSE "Internal Server Error"]}

\* _normalize_user_id: None for an empty id, the id itself when it is a
\* UUID, else the uuid5 of "fitai:<id>".
ErrUserIds == {"", "u1", "7f3c2a10-0000-4000-8000-000000000001"}
NormalizeUserId(user_id) ==
    CASE user_id = "" -> None
      [] user_id = "u1" -> Some("uuid5(fitai:u1)")
      [] OTHER -> Some(user_id)

FoodItemIds == {"egg", "oats"}

\* The profiles rows generate_macros reads: none, one without training_days,
\* one with every required input.
ProfileUsers == {"ghost", "new", "u1"}
ProfileFound(user_id) == user_id # "ghost"
HasRequiredMacroInputs(user_id) == user_id = "u1"

\* _normalize_ai_macros on the outputs of the model.
MacroOutputs ==
    {"{\"protein\":150,\"carbs\":200,\"fats\":60,\"calories\":1940}",
     "{\"macros\":{\"protein\":\"150\",\"carbs\":200,\"fats\":60,\"calories\":1940}}",
     "{\"protein\":150}",
     "Sure! Here are your macros."}
NormalizeAiMacros(raw_output) ==
    IF raw_output \in {"{\"protein\":150}", "Sure! Here are your macros."} THEN None
    ELSE Some([protein |-> 150, carbs |-> 200, fats |-> 60, calories |-> 1940])

HandlerResponse(handler, raised, answer) ==
    [handler |-> handler, raised |-> raised, status |-> answer.status,
     detail |-> answer.detail]
Answered == [status |-> 200, detail |-> ""]

ErInit ==
    /\ erFavorites = <<>>
    /\ erMacros = [user_id \in ProfileUsers |-> None]
    /\ erN = 0
    /\ erResp = HandlerResponse("", None, [status |-> 0, detail |-> ""])

erOthers == <<ckVars, prVars, fdVars, obVars, chVars, auVars, dcVars, tpVars, lgVars, trVars, jbVars, thVars, ukVars, fsVars, npVars>>

\* add_favorite: its only clause is `except Exception`.
AddFavorite(user_id, food_item_id, inserted) ==
    /\ erN < MaxErrorRequests
    /\ erN' = erN + 1
    /\ LET normalized_user_id == NormalizeUserId(user_id)
           raised == IF normalized_user_id = None
                     THEN Some(HTTPException(400, "Invalid user id."))
                     ELSE IF ~inserted THEN Some(DatastoreError)
                     ELSE None
       IN  IF raised # None
           THEN /\ \E answer \in Surface(raised[1], <<"Exception">>) :
                      erResp' = HandlerResponse("add_favorite", raised, answer)
                /\ UNCHANGED erFavorites
           ELSE /\ erFavorites' = Append(erFavorites,
                       [user_id |-> normalized_user_id[1], food_item_id |-> food_item_id])
                /\ erResp' = HandlerResponse("add_favorite", None, Answered)
    /\ UNCHANGED <<erMacros, erOthers>>

\* generate_macros: 404 and 400 are raised before the try; inside it the
\* clauses are `except HTTPException: raise` and `except Exception`.
GenerateMacros(user_id, ai_output, prompted, upserted) ==
    /\ erN < MaxErrorRequests
    /\ erN' = erN + 1
    /\ LET ai_macros == NormalizeAiMacros(ai_output)
           outside == IF ~ProfileFound(user_id)
                      THEN Some(HTTPException(404, "Profile not found"))
                      ELSE IF ~HasRequiredMacroInputs(user_id)
                      THEN Some(HTTPException(400, "Profile data incomplete for macro generation"))
                      ELSE None
           inside == IF ~prompted THEN Some(PromptError)
                     ELSE IF ai_macros = None
                     THEN Some(HTTPException(502, "AI macro output invalid"))
                     ELSE IF ~upserted THEN Some(DatastoreError)
                     ELSE None
       IN  IF outside # None
           THEN /\ \E answer \in Surface(outside[1], <<>>) :
                      erResp' = HandlerResponse("generate_macros", outside, answer)
                /\ UNCHANGED erMacros
           ELSE IF inside # None
           THEN /\ \E answer \in Surface(inside[1], <<"HTTPException", "Exception">>) :
                      erResp' = HandlerResponse("generate_macros", inside, answer)
                /\ UNCHANGED erMacros
           ELSE /\ erMacros' = [erMacros EXCEPT ![user_id] = ai_macros]
                /\ erResp' = HandlerResponse("generate_macros", None, Answered)
    /\ UNCHANGED <<erFavorites, erOthers>>

----------------------------------------------------------------------------
(* Length of the coach's replies: routers/chat.py *)

MAX_COACH_WORDS_DETAILED == 250

\* A text is the sequence of its whitespace-separated tokens, a line break
\* being a token of its own: a plain word, a word that ends a sentence, a
\* bold word, a list enumerator, a list introduction and a bullet.
LineBreak == "\n"
Tokens == {"lift", "rest.", "**go**", "1.", "plan:", "-", LineBreak}

\* _wants_detailed_reply on the messages of the model.
ReplyContents == {"how much protein?", "Give me a Detailed plan", "explain step by step"}
WantsDetailedReply(text) == text \in {"Give me a Detailed plan", "explain step by step"}

\* re.sub(r"\*\*([^*]+)\*\*", r"\1", ...) on one token.
Unbold(token) == IF token = "**go**" THEN "go" ELSE token

\* re.sub(r"(?m)^\s*[-*]\s+", "", ...) and re.sub(r"(?m)^\s*\d+\s*[.)]\s+", "", ...):
\* the marker is dropped where it starts a line and whitespace follows it.
StripLineMarker(toks, marker) ==
    LET marked == [i \in 1..Len(toks) |->
                     [token |-> toks[i],
                      drop |-> /\ toks[i] = marker
                               /\ i < Len(toks)
                               /\ (i = 1 \/ toks[i - 1] = LineBreak)]]
        kept == SelectSeq(marked, LAMBDA m : ~m.drop)
    IN  [i \in 1..Len(kept) |-> kept[i].token]

\* _sanitize_coach_text: markdown removed, then " ".join(cleaned.split()).
SanitizeCoachText(toks) ==
    LET unbold == [i \in 1..Len(toks) |-> Unbold(toks[i])]
        bullets == StripLineMarker(unbold, "-")
        numbers == StripLineMarker(bullets, "1.")
    IN  SelectSeq(numbers, LAMBDA t : t # LineBreak)

EndsSentence(token) == token \in {"rest.", "1."}

\* The index of the word that ends the sentence starting at i.
SentenceEnd(words, i) ==
    CHOOSE e \in i..Len(words) :
        /\ e = Len(words) \/ EndsSentence(words[e])
        /\ \A k \in i..(e - 1) : ~EndsSentence(words[k])

\* re.split(r"(?<=[.!?])\s+", cleaned): the parts from word i on, each a
\* sequence of words.
RECURSIVE SplitSentences(_, _)
SplitSentences(words, i) ==
    IF i > Len(words) THEN <<>>
    ELSE <<SubSeq(words, i, SentenceEnd(words, i))>>
         \o SplitSentences(words, SentenceEnd(words, i) + 1)

\* The while loop: a part that ends with an enumerator and is the enumerator
\* alone or holds a colon takes the next part along.
RECURSIVE MergeEnumerators(_, _)
MergeEnumerators(parts, i) ==
    IF i > Len(parts) THEN <<>>
    ELSE LET part == parts[i]
             ends_with_enumerator == part[Len(part)] = "1."
             is_pure_enumerator == part = <<"1.">>
             looks_like_list_intro == \E k \in 1..Len(part) : part[k] = "plan:"
         IN  IF ends_with_enumerator /\ i + 1 <= Len(parts)
                /\ (is_pure_enumerator \/ looks_like_list_intro)
             THEN <<part \o parts[i + 1]>> \o MergeEnumerators(parts, i + 2)
             ELSE <<part>> \o MergeEnumerators(parts, i + 1)

\* " ".join(merged[:max_sentences]).split()
RECURSIVE JoinSentences(_, _, _)
JoinSentences(parts, i, last) ==
    IF i > last \/ i > Len(parts) THEN <<>>
    ELSE parts[i] \o JoinSentences(parts, i + 1, last)

\* str.rstrip(".,!?") on one token.
RstripPunctuation(token) ==
    CASE token = "rest." -> "rest" [] token = "1." -> "1" [] OTHER -> token

\* A trim that joins the sentences and never counts the words.
KeepWords(words, max_words) == words

\* `if len(words) > max_words`: the first max_words words, the last one
\* without its trailing punctuation.
CutWords(words, max_words) ==
    IF Len(words) <= max_words THEN words
    ELSE [i \in 1..max_words |->
            IF i = max_words THEN RstripPunctuation(words[i]) ELSE words[i]]

\* _trim_coach_reply
TrimCoachReplyWords(toks, max_words, max_sentences) ==
    LET cleaned == SanitizeCoachText(toks)
        merged == MergeEnumerators(SplitSentences(cleaned, 1), 1)
        trimmed == SanitizeCoachText(
                      CutWords(JoinSentences(merged, 1, max_sentences), max_words))
    IN  IF cleaned = <<>> THEN cleaned
        ELSE IF trimmed # <<>> /\ trimmed[Len(trimmed)] = "1."
        THEN SubSeq(trimmed, 1, Len(trimmed) - 1)
        ELSE trimmed

\* What the model or a tool produces: every short text, and long texts of
\* plain words with a sentence end every sentence_words words (none when 0).
RECURSIVE TextsUpTo(_)
TextsUpTo(n) ==
    IF n = 0 THEN {<<>>}
    ELSE TextsUpTo(n - 1)
         \cup {Append(t, token) : t \in {u \in TextsUpTo(n - 1) : Len(u) = n - 1},
                                  token \in Tokens}
LongText(words, sentence_words) ==
    [i \in 1..words |->
        IF sentence_words > 0 /\ i % sentence_words = 0 THEN "rest." ELSE "lift"]
WordCounts == {MAX_COACH_WORDS_SHORT - 1, MAX_COACH_WORDS_SHORT, MAX_COACH_WORDS_SHORT + 1,
               MAX_COACH_WORDS_DETAILED, MAX_COACH_WORDS_DETAILED + 1, 300}
SentenceWords == {0, 10, 25, 30, 121}
ModelTexts ==
    TextsUpTo(MaxTextLen)
    \cup {LongText(words, sentence_words) :
            words \in WordCounts, sentence_words \in SentenceWords}

TrInit ==
    /\ trReq = [content |-> "", text |-> <<>>]
    /\ trReply = <<>>
    /\ trN = 0

trOthers == <<ckVars, prVars, fdVars, obVars, chVars, auVars, dcVars, tpVars, lgVars, erVars, jbVars, thVars, ukVars, fsVars, npVars>>

\* The model reply of post_message: the limits follow the user's message, and
\* the text of _run_tool_calls goes through _trim_coach_reply before it is
\* stored and returned.
CoachReply(content, text) ==
    /\ trN = 0
    /\ trN' = trN + 1
    /\ trReq' = [content |-> content, text |-> text]
    /\ LET detailed_mode == WantsDetailedReply(content)
           trim_max_words == IF detailed_mode THEN MAX_COACH_WORDS_DETAILED
                             ELSE MAX_COACH_WORDS_SHORT
           trim_max_sentences == IF detailed_mode THEN 12 ELSE 5
       IN  trReply' = TrimCoachReplyWords(text, trim_max_words, trim_max_sentences)
    /\ UNCHANGED trOthers

----------------------------------------------------------------------------
(* ai_jobs rows of run_prompt (app/prompts.py) *)

MaxJobs == 2

\* What supabase.table(...).insert/update(...).execute() can do: the write is
\* applied and the call returns the written rows, the write is applied and the
\* call returns no rows, or the call raises and nothing is written.
WriteOutcomes == {"rows", "no_rows", "raises"}

\* What client.chat.completions.create (or _get_client before it) can do:
\* message.content is a text or None, or the call raises.
ModelOutcomes ==
    { [raised |-> FALSE, content |-> Some("{\"calories\": 2200}"), error |-> ""],
      [raised |-> FALSE, content |-> None, error |-> ""],
      [raised |-> TRUE, content |-> None, error |-> "OPENAI_API_KEY is not set"],
      [raised |-> TRUE, content |-> None, error |-> "Request timed out."] }

DatabaseErrorText == "connection reset by peer"

\* job_payload of run_prompt as log_job inserts it
JobPayload == [status |-> "running", output |-> None, error |-> None]

NoPromptRun == [kind |-> "none", output |-> None, error |-> "", job |-> 0]
Returned(output, job) == [kind |-> "returned", output |-> output, error |-> "", job |-> job]
Raised(error, job) == [kind |-> "raised", output |-> None, error |-> error, job |-> job]

\* update_job: the row with that id takes the payload's keys, unless the
\* call raises
UpdateJob(jobs, job_id, payload, outcome) ==
    IF outcome = "raises" THEN jobs
    ELSE [jobs EXCEPT ![job_id] = [k \in DOMAIN @ |->
                                     IF k \in DOMAIN payload THEN payload[k] ELSE @[k]]]
LogUpdate(updates, job_id, status, outcome) ==
    IF outcome = "raises" THEN updates
    ELSE [updates EXCEPT ![job_id] = Append(@, status)]

JbInit ==
    /\ jbJobs = <<>>
    /\ jbUpdates = <<>>
    /\ jbResp = NoPromptRun

jbOthers == <<ckVars, prVars, fdVars, obVars, chVars, auVars, dcVars, tpVars, lgVars, erVars, trVars, thVars, ukVars, fsVars, npVars>>

\* run_prompt when ai_prompts has no prompt of that name, or when the lookup
\* or log_job's insert raises: no row is written
RunPromptWithoutJob(error) ==
    /\ jbResp' = Raised(error, 0)
    /\ UNCHANGED <<jbJobs, jbUpdates, jbOthers>>

\* run_prompt from log_job on: the row is inserted as running, the model is
\* called, and the row is updated to completed, or to failed in the except
\* clause, which re-raises.  `inserted` is what the insert returned,
\* `completed` and `failed` what the two update_job calls do.
RunPrompt(inserted, model, completed, failed) ==
    /\ Len(jbJobs) < MaxJobs
    /\ inserted # "raises"
    /\ LET row == Len(jbJobs) + 1
           job_id == IF inserted = "rows" THEN Some(row) ELSE None
           jobs0 == Append(jbJobs, JobPayload)
           upd0 == Append(jbUpdates, <<>>)
           \* the try block up to `return output`
           try_raises == model.raised \/ (job_id # None /\ completed = "raises")
           exc == IF model.raised THEN model.error ELSE DatabaseErrorText
           jobs1 == IF model.raised \/ job_id = None THEN jobs0
                    ELSE UpdateJob(jobs0, row,
                                   [output |-> model.content, status |-> "completed"],
                                   completed)
           upd1 == IF model.raised \/ job_id = None THEN upd0
                   ELSE LogUpdate(upd0, row, "completed", completed)
           \* the except clause
           jobs2 == IF try_raises /\ job_id # None
                    THEN UpdateJob(jobs1, row,
                                   [status |-> "failed", error |-> Some(exc)], failed)
                    ELSE jobs1
           upd2 == IF try_raises /\ job_id # None
                   THEN LogUpdate(upd1, row, "failed", failed)
                   ELSE upd1
       IN  /\ jbJobs' = jobs2
           /\ jbUpdates' = upd2
           /\ jbResp' = IF ~try_raises THEN Returned(model.content, row)
                        ELSE IF job_id # None /\ failed = "raises"
                             THEN Raised(DatabaseErrorText, row)
                             ELSE Raised(exc, row)
    /\ UNCHANGED jbOthers

JbNext ==
    \/ \E error \in {"Prompt not found", DatabaseErrorText} : RunPromptWithoutJob(error)
    \/ \E inserted \in WriteOutcomes, model \in ModelOutcomes,
          completed \in WriteOutcomes, failed \in WriteOutcomes :
            RunPrompt(inserted, model, completed, failed)

----------------------------------------------------------------------------
(* Access to a chat thread: routers/chat.py *)

MaxThreads == 2
MaxPosts == 2

\* The user ids clients send: two free-form ids, a UUID in canonical form and
\* the same UUID in upper case.
ThreadClientIds == {"u1", "u2", "7f3c2a10-0000-4000-8000-000000000001",
                    "7F3C2A10-0000-4000-8000-000000000001"}

\* _normalize_user_id of chat.py: str(uuid.UUID(id)) is the canonical lower
\* case form of a UUID, any other id becomes the uuid5 of "fitai:<id>".
ChatNormalizeUserId(user_id) ==
    CASE user_id = "u1" -> "uuid5(fitai:u1)"
      [] user_id = "u2" -> "uuid5(fitai:u2)"
      [] OTHER -> "7f3c2a10-0000-4000-8000-000000000001"

\* The thread ids clients send: the existing ones and one that no row has.
RequestedThreads == 1..(MaxThreads + 1)
PostedContents == {"", " ", "hi"}

\* payload.content.strip() on the contents of the model
StripContent(content) == IF content = " " THEN "" ELSE content

\* select from chat_threads .eq("id", thread_id).eq("user_id", normalized)
ThreadFoundForAnyUser(thread_id, normalized_user_id) ==
    thread_id \in DOMAIN thThreads
ThreadFound(thread_id, normalized_user_id) ==
    /\ thread_id \in DOMAIN thThreads
    /\ thThreads[thread_id].user_id = normalized_user_id

NoCalls == [tasks |-> 0, moderation |-> 0, model |-> 0]
ThreadAnswer(op, thread_id, user_id, content, status) ==
    [op |-> op, thread_id |-> thread_id, user_id |-> user_id, content |-> content,
     status |-> status]

ThInit ==
    /\ thThreads = <<>>
    /\ thUsers = {}
    /\ thCalls = NoCalls
    /\ thResp = ThreadAnswer("", 0, "", "", 0)

thOthers == <<ckVars, prVars, fdVars, obVars, chVars, auVars, dcVars, tpVars, lgVars, erVars, trVars, jbVars, ukVars, fsVars, npVars>>

\* create_thread: the users row is ensured and the thread is inserted for
\* the normalized user id
CreateThread(user_id) ==
    /\ Len(thThreads) < MaxThreads
    /\ LET normalized == ChatNormalizeUserId(user_id)
       IN  /\ thUsers' = thUsers \cup {normalized}
           /\ thThreads' = Append(thThreads,
                                  [user_id |-> normalized, messages |-> 0, touched |-> 0])
           /\ thResp' = ThreadAnswer("create", Len(thThreads) + 1, user_id, "", 200)
    /\ UNCHANGED <<thCalls, thOthers>>

\* get_thread: 404 unless the thread is found for the normalized user
GetThread(thread_id, user_id) ==
    /\ thResp' = ThreadAnswer("get", thread_id, user_id, "",
                              IF ThreadFound(thread_id, ChatNormalizeUserId(user_id))
                              THEN 200 ELSE 404)
    /\ UNCHANGED <<thThreads, thUsers, thCalls, thOthers>>

\* post_message: 400 for blank content, 404 unless the thread is found for
\* the normalized user; otherwise the six executor tasks are started (among
\* them moderation, _ensure_user_exists and the insert of the user message
\* with its _touch_thread), and the reply, a refusal when moderation flagged
\* the message and else an answer of the model, is stored with another
\* _touch_thread.
PostToThread(thread_id, user_id, content, flagged) ==
    /\ thCalls.moderation < MaxPosts
    /\ IF StripContent(content) = ""
       THEN /\ thResp' = ThreadAnswer("post", thread_id, user_id, content, 400)
            /\ UNCHANGED <<thThreads, thUsers, thCalls>>
       ELSE IF ~ThreadFound(thread_id, ChatNormalizeUserId(user_id))
       THEN /\ thResp' = ThreadAnswer("post", thread_id, user_id, content, 404)
            /\ UNCHANGED <<thThreads, thUsers, thCalls>>
       ELSE /\ thResp' = ThreadAnswer("post", thread_id, user_id, content, 200)
            /\ thCalls' = [tasks |-> thCalls.tasks + 6,
                           moderation |-> thCalls.moderation + 1,
                           model |-> thCalls.model + (IF flagged THEN 0 ELSE 1)]
            /\ thUsers' = thUsers \cup {ChatNormalizeUserId(user_id)}
            /\ thThreads' = [thThreads EXCEPT ![thread_id] =
                                [@ EXCEPT !.messages = @ + 2, !.touched = @ + 2]]
    /\ UNCHANGED thOthers

ThNext ==
    \/ \E user_id \in ThreadClientIds : CreateThread(user_id)
    \/ \E thread_id \in RequestedThreads, user_id \in ThreadClientIds :
          GetThread(thread_id, user_id)
    \/ \E thread_id \in RequestedThreads, user_id \in ThreadClientIds,
          content \in PostedContents, flagged \in BOOLEAN :
          PostToThread(thread_id, user_id, content, flagged)

----------------------------------------------------------------------------
(* The stored key of a user: routers/nutrition.py, workouts.py, progress.py *)

MaxKeyWrites == 2

\* The user ids clients send: none, a free-form id, a UUID in canonical form
\* and the same UUID in upper case.
ClientUserIds == {"", "u1", "7f3c2a10-0000-4000-8000-000000000001",
                  "7F3C2A10-0000-4000-8000-000000000001"}

\* uuid.UUID(user_id) succeeds, and str() of it
IsUuid(user_id) == user_id \in {"7f3c2a10-0000-4000-8000-000000000001",
                                "7F3C2A10-0000-4000-8000-000000000001"}
CanonicalUuid(user_id) == "7f3c2a10-0000-4000-8000-000000000001"

\* str(uuid.uuid5(uuid.NAMESPACE_URL, name))
Uuid5(name) ==
    CASE name = "fitai:u1" -> "23ab2e26-3205-588a-b49e-61696c7972f5"

\* _normalize_user_id of nutrition.py, workouts.py and scan.py, which are
\* the same function
NormalizeStoredUserId(user_id) ==
    IF user_id = "" THEN None
    ELSE IF IsUuid(user_id) THEN Some(CanonicalUuid(user_id))
    ELSE Some(Uuid5("fitai:" \o user_id))

UserWithId(user_id) == \E i \in DOMAIN auUsers : auUsers[i].id = user_id

\* _ensure_user_record of nutrition.py and scan.py: the users rows after it.
\* The row it inserts has the digest of the normalized id as its password.
EnsureUserRecord(normalized) ==
    IF normalized = None \/ UserWithId(normalized[1]) THEN auUsers
    ELSE Append(auUsers, [id |-> normalized[1],
                          email |-> "user-" \o normalized[1] \o "@fitai.local",
                          hashed_password |-> Sha256Hex(normalized[1])])

\* _ensure_user_exists of workouts.py (and of chat.py): the users rows after it
EnsureUserExists(normalized) ==
    IF normalized = None \/ UserWithId(normalized[1]) THEN auUsers
    ELSE Append(auUsers, [id |-> normalized[1],
                          email |-> "user-" \o normalized[1] \o "@placeholder.local",
                          hashed_password |-> "placeholder"])

\* The type of a user_id column, which the repository does not fix: text
\* compares the strings, uuid compares UUIDs and rejects any other text.
ColumnTypes == {"text", "uuid"}
KeyAccepted(column, user_id) == column = "text" \/ IsUuid(user_id)
KeyMatches(column, stored, user_id) ==
    IF column = "text" THEN stored = Some(user_id)
    ELSE stored = Some(CanonicalUuid(user_id))

KeyAnswer(op, user_id, status, found) ==
    [op |-> op, user_id |-> user_id, status |-> status, found |-> found]

UkInit ==
    /\ ukLogs = <<>>
    /\ ukSessions = <<>>
    /\ ukResp = KeyAnswer("", "", 0, 0)

ukOthers == <<ckVars, prVars, fdVars, obVars, chVars, auVars, dcVars, tpVars, lgVars, erVars, trVars, jbVars, thVars, fsVars, npVars>>
ukBeyondUsers == <<ckVars, prVars, fdVars, obVars, chVars, dcVars, tpVars, lgVars, erVars,
                   trVars, jbVars, thVars, fsVars, npVars>>

\* log_manual_item: the user record is ensured, the log is inserted under the
\* normalized id; an insert that raises gives 500
LogManualItem(user_id, calories, inserted) ==
    /\ Len(ukLogs) + Len(ukSessions) < MaxKeyWrites
    /\ LET normalized_user_id == NormalizeStoredUserId(user_id)
       IN  /\ auUsers' = EnsureUserRecord(normalized_user_id)
           /\ ukLogs' = IF inserted
                        THEN Append(ukLogs, [user_id |-> normalized_user_id,
                                             calories |-> calories])
                        ELSE ukLogs
           /\ ukResp' = KeyAnswer("log_manual_item", user_id,
                                  IF inserted THEN 200 ELSE 500, 0)
    /\ UNCHANGED <<ukSessions, auResp, ukBeyondUsers>>

\* start_session: the user is ensured, the session is inserted under the
\* normalized id
StartSession(user_id, inserted) ==
    /\ Len(ukLogs) + Len(ukSessions) < MaxKeyWrites
    /\ LET normalized == NormalizeStoredUserId(user_id)
       IN  /\ auUsers' = EnsureUserExists(normalized)
           /\ ukSessions' = IF inserted THEN Append(ukSessions, normalized) ELSE ukSessions
           /\ ukResp' = KeyAnswer("start_session", user_id,
                                  IF inserted THEN 200 ELSE 500, 0)
    /\ UNCHANGED <<ukLogs, auResp, ukBeyondUsers>>

\* macro_adherence: profiles and nutrition_logs are selected with
\* .eq("user_id", user_id), the id as the client sent it; the days are built
\* from the rows found
MacroAdherence(user_id, column) ==
    /\ ukResp' = IF KeyAccepted(column, user_id)
                 THEN KeyAnswer("macro_adherence", user_id, 200,
                                Cardinality({i \in DOMAIN ukLogs :
                                    KeyMatches(column, ukLogs[i].user_id, user_id)}))
                 ELSE KeyAnswer("macro_adherence", user_id, 500, 0)
    /\ UNCHANGED <<ukLogs, ukSessions, ukOthers>>

\* The emails and passwords somebody can try on the rows the helpers insert.
ImplicitEmails ==
    {"user-" \o id \o domain :
        id \in {"23ab2e26-3205-588a-b49e-61696c7972f5", "7f3c2a10-0000-4000-8000-000000000001"},
        domain \in {"@fitai.local", "@placeholder.local"}}
ImplicitPasswords == {"placeholder", "u1", "23ab2e26-3205-588a-b49e-61696c7972f5",
                      "7f3c2a10-0000-4000-8000-000000000001"}

UkNext ==
    \/ \E user_id \in ClientUserIds, calories \in {500}, inserted \in BOOLEAN :
          LogManualItem(user_id, calories, inserted)
    \/ \E user_id \in ClientUserIds, inserted \in BOOLEAN : StartSession(user_id, inserted)
    \/ \E user_id \in ClientUserIds \ {""}, column \in ColumnTypes :
          MacroAdherence(user_id, column)
    \/ \E email \in ImplicitEmails, password \in ImplicitPasswords : Login(email, password)

----------------------------------------------------------------------------
(* The FatSecret token cache: app/fatsecret_client.py *)

MaxClock == 4
MaxFetches == 3

\* expires_in of a token response: missing, or a number of seconds
ExpiresIns == {None, Some(0), Some(29), Some(30), Some(31), Some(33)}

\* What the token request can come back with: a token, a body without
\* access_token, or an error of urlopen.
FetchOutcomes ==
    [kind : {"token"}, expires_in : ExpiresIns]
    \cup {[kind |-> "no_access_token", expires_in |-> None],
          [kind |-> "http_error", expires_in |-> None]}

\* int(payload.get("expires_in") or 0)
ExpiresInOf(payload) == IF payload.expires_in = None THEN 0 ELSE payload.expires_in[1]

\* int(time.time()) + max(expires_in - 30, 0)
ExpiresAtUnpadded(now, expires_in) == now + expires_in
ExpiresAt(now, expires_in) ==
    now + (IF expires_in - 30 > 0 THEN expires_in - 30 ELSE 0)

EmptyTokenCache == [access_token |-> None, expires_at |-> 0]
TokenAnswer(status, token, cached, at) ==
    [status |-> status, token |-> token, cached |-> cached, at |-> at]

FsInit ==
    /\ fsNow = 0
    /\ fsCache = EmptyTokenCache
    /\ fsFetches = <<>>
    /\ fsResp = TokenAnswer(0, None, FALSE, 0)

fsOthers == <<ckVars, prVars, fdVars, obVars, chVars, auVars, dcVars, tpVars, lgVars, erVars, trVars, jbVars, thVars, ukVars, npVars>>

\* The clock moves on by a second.
Tick ==
    /\ fsNow < MaxClock
    /\ fsNow' = fsNow + 1
    /\ UNCHANGED <<fsCache, fsFetches, fsResp, fsOthers>>

\* _get_token served from the cache
GetCachedToken ==
    /\ fsCache.access_token # None
    /\ fsNow < fsCache.expires_at
    /\ fsResp' = TokenAnswer(200, fsCache.access_token, TRUE, fsNow)
    /\ UNCHANGED <<fsNow, fsCache, fsFetches, fsOthers>>

\* _get_token when the cache has no token or an expired one: _fetch_token
\* asks for a token, which is a new one each time, and stores it with its
\* expiry; a failed request raises HTTP 500 and leaves the cache as it was
FetchToken(payload) ==
    /\ ~(fsCache.access_token # None /\ fsNow < fsCache.expires_at)
    /\ Len(fsFetches) < MaxFetches
    /\ IF payload.kind = "token"
       THEN LET access_token == Len(fsFetches) + 1
                expires_in == ExpiresInOf(payload)
            IN  /\ fsFetches' = Append(fsFetches, [access_token |-> access_token,
                                                   at |-> fsNow, expires_in |-> expires_in])
                /\ fsCache' = [access_token |-> Some(access_token),
                               expires_at |-> ExpiresAt(fsNow, expires_in)]
                /\ fsResp' = TokenAnswer(200, Some(access_token), FALSE, fsNow)
       ELSE /\ fsResp' = TokenAnswer(500, None, FALSE, fsNow)
            /\ UNCHANGED <<fsFetches, fsCache>>
    /\ UNCHANGED <<fsNow, fsOthers>>

FsNext ==
    \/ Tick
    \/ GetCachedToken
    \/ \E payload \in FetchOutcomes : FetchToken(payload)

----------------------------------------------------------------------------
(* _normalize_action_proposal on every argument: routers/chat.py *)

VALID_SPLIT_TYPES == {"smart", "fullBody", "upperLower", "pushPullLegs", "hybrid",
                      "bodyPart", "arnold"}
VALID_SPLIT_MODES == {"ai", "custom"}
WEEKDAY_ORDER == <<"Monday", "Tuesday", "Wednesday", "Thursday", "Friday", "Saturday",
                   "Sunday">>

\* A JSON value as json.loads returns it: its Python type, its number in
\* tenths (1 or 0 for a bool), its text, and its items for a list.  A key
\* that the object lacks reads as None with dict.get.
ArgValue(type, tenths, text, items) ==
    [type |-> type, tenths |-> tenths, text |-> text, items |-> items]
ArgNone == ArgValue("none", 0, "", <<>>)
ArgBool(b) == ArgValue("bool", IF b THEN 10 ELSE 0, "", <<>>)
ArgNum(tenths) == ArgValue("number", tenths, "", <<>>)
ArgInfinity == ArgValue("infinity", 0, "", <<>>)
ArgNaN == ArgValue("nan", 0, "", <<>>)
ArgStr(text) == ArgValue("str", 0, text, <<>>)
ArgList(items) == ArgValue("list", 0, "", items)
ArgDict == ArgValue("dict", 0, "", <<>>)

\* float(value): a number in tenths, "inf", "nan", or the exception raised
FloatOf(value) ==
    CASE value.type \in {"bool", "number"} -> [kind |-> "float", tenths |-> value.tenths]
      [] value.type = "infinity" -> [kind |-> "inf", tenths |-> 0]
      [] value.type = "nan" -> [kind |-> "nan", tenths |-> 0]
      [] value.type = "str" ->
            (CASE value.text = "150" -> [kind |-> "float", tenths |-> 1500]
               [] value.text = " 4 " -> [kind |-> "float", tenths |-> 40]
               [] value.text = "1e5" -> [kind |-> "float", tenths |-> 1000000]
               [] value.text = "inf" -> [kind |-> "inf", tenths |-> 0]
               [] OTHER -> [kind |-> "ValueError", tenths |-> 0])
      [] OTHER -> [kind |-> "TypeError", tenths |-> 0]

\* round(x) of a float given in tenths: to the nearest integer, a half to the
\* even one
RoundHalfEven(tenths) ==
    LET floor == tenths \div 10
        rest == tenths % 10
    IN  IF rest < 5 THEN floor
        ELSE IF rest > 5 THEN floor + 1
        ELSE IF floor % 2 = 0 THEN floor ELSE floor + 1

ClampUnbounded(parsed, min_value, max_value) == parsed
\* parsed = max(min_value, parsed); parsed = min(max_value, parsed)
Clamp(parsed, min_value, max_value) ==
    LET raised == IF parsed < min_value THEN min_value ELSE parsed
    IN  IF raised > max_value THEN max_value ELSE raised

\* _safe_int: int(round(float(value))) between the limits, None on TypeError
\* and ValueError (round of nan raises ValueError); round of an infinity
\* raises OverflowError, which is not caught
SafeIntOf(value, min_value, max_value) ==
    LET float == FloatOf(value)
    IN  CASE float.kind = "float" ->
                [raised |-> FALSE,
                 int |-> Some(Clamp(RoundHalfEven(float.tenths), min_value, max_value))]
          [] float.kind = "inf" -> [raised |-> TRUE, int |-> None]
          [] OTHER -> [raised |-> FALSE, int |-> None]

\* raw_day.strip().lower() on the day texts of the model
StripLower(text) ==
    CASE text = "MONDAY " -> "monday"
      [] text = " friday" -> "friday"
      [] text = "Sunday" -> "sunday"
      [] text = "Funday" -> "funday"
      [] text = "M" -> "m"
      [] OTHER -> text

\* day_map.get(key)
DayMapGet(key) ==
    CASE key = "monday" -> Some("Monday")
      [] key = "tuesday" -> Some("Tuesday")
      [] key = "wednesday" -> Some("Wednesday")
      [] key = "thursday" -> Some("Thursday")
      [] key = "friday" -> Some("Friday")
      [] key = "saturday" -> Some("Saturday")
      [] key = "sunday" -> Some("Sunday")
      [] OTHER -> None

InSeq(x, seq) == \E i \in DOMAIN seq : seq[i] = x

RECURSIVE ResolveDays(_, _)
\* the first loop of _normalize_training_days
ResolveDays(days, normalized) ==
    IF days = <<>> THEN normalized
    ELSE LET raw_day == Head(days)
             resolved == IF raw_day.type = "str" THEN DayMapGet(StripLower(raw_day.text))
                         ELSE None
         IN  IF resolved # None /\ ~InSeq(resolved[1], normalized)
             THEN ResolveDays(Tail(days), Append(normalized, resolved[1]))
             ELSE ResolveDays(Tail(days), normalized)

RECURSIVE FillDays(_, _, _)
\* the second loop: the weekdays from order[i] on, up to target_count days
FillDays(normalized, i, target_count) ==
    IF i > Len(WEEKDAY_ORDER) \/ Len(normalized) >= target_count THEN normalized
    ELSE FillDays(IF InSeq(WEEKDAY_ORDER[i], normalized) THEN normalized
                  ELSE Append(normalized, WEEKDAY_ORDER[i]),
                  i + 1, target_count)

FirstOf(seq, n) == SubSeq(seq, 1, IF Len(seq) < n THEN Len(seq) ELSE n)

\* What iterating over `days` yields: the items of a list, the characters of
\* a text; a number or a bool is not iterable.
Iterable(days) == days.type \in {"list", "str"}
CharsOf(text) ==
    CASE text = "Monday" -> <<"M", "o", "n", "d", "a", "y">>
      [] OTHER -> <<>>
ItemsOf(days) ==
    IF days.type = "list" THEN days.items
    ELSE [i \in 1..Len(CharsOf(days.text)) |-> ArgStr(CharsOf(days.text)[i])]

\* `not days`
Falsy(value) ==
    \/ value.type = "none"
    \/ value.type \in {"bool", "number"} /\ value.tenths = 0
    \/ value.type = "str" /\ value.text = ""
    \/ value.type = "list" /\ value.items = <<>>

\* _normalize_training_days; iterating over a number raises TypeError
NormalizeTrainingDays(days, target_count) ==
    IF Falsy(days) THEN [raised |-> FALSE, days |-> FirstOf(WEEKDAY_ORDER, target_count)]
    ELSE IF ~Iterable(days) THEN [raised |-> TRUE, days |-> <<>>]
    ELSE [raised |-> FALSE,
          days |-> FirstOf(FillDays(ResolveDays(ItemsOf(days), <<>>), 1, target_count),
                           target_count)]

\* `x in {...}` on a set of texts: False for any other hashable value, and
\* TypeError for a list or a dict, which cannot be hashed
Hashable(value) == value.type \notin {"list", "dict"}
InTexts(value, texts) == value.type = "str" /\ value.text \in texts

\* text.strip() on the texts of the model
StripText(text) ==
    CASE text = "  " -> ""
      [] text = " Leaner cut " -> "Leaner cut"
      [] text = " legs " -> "legs"
      [] OTHER -> text

TextOr(value, default) ==
    IF value.type = "str" /\ StripText(value.text) # "" THEN StripText(value.text)
    ELSE default

NormalizeRaised == [kind |-> "raised", proposal |-> None]
NoProposal == [kind |-> "returned", proposal |-> None]
ProposalReturned(proposal) == [kind |-> "returned", proposal |-> Some(proposal)]

\* The update_macros branch. `macros` is the raw_args value; its entries are
\* in raw_args.macro_values.
MacrosProposal(raw_args, proposal) ==
    LET raw_macros == IF raw_args.macros.type = "dict" THEN raw_args.macro_values
                      ELSE [k \in MacroKeys |-> ArgNone]
        parsed == [k \in MacroKeys |-> SafeIntOf(raw_macros[k], 0, 10000)]
        kept == {k \in MacroKeys : parsed[k].int # None}
    IN  IF \E k \in MacroKeys : parsed[k].raised THEN NormalizeRaised
        ELSE IF kept = {} THEN NoProposal
        ELSE ProposalReturned([proposal EXCEPT
                !.macros = Some([k \in kept |-> parsed[k].int[1]])])

\* The update_workout_split branch. `split` is the raw_args value; its
\* entries are in raw_args.split_values.
SplitProposal(raw_args, proposal) ==
    LET raw_split == IF raw_args.split.type = "dict" THEN raw_args.split_values
                     ELSE [days_per_week |-> ArgNone, split_type |-> ArgNone, mode |-> ArgNone,
                           training_days |-> ArgNone, focus |-> ArgNone]
        safe == SafeIntOf(raw_split.days_per_week, 2, 7)
        days_per_week == IF safe.int = None \/ safe.int = Some(0) THEN 3 ELSE safe.int[1]
        split_type == IF InTexts(raw_split.split_type, VALID_SPLIT_TYPES)
                      THEN raw_split.split_type.text ELSE "smart"
        mode == IF InTexts(raw_split.mode, VALID_SPLIT_MODES)
                THEN raw_split.mode.text ELSE "ai"
        training_days == NormalizeTrainingDays(raw_split.training_days, days_per_week)
        focus == TextOr(raw_split.focus, "")
    IN  IF \/ safe.raised
           \/ ~Hashable(raw_split.split_type)
           \/ ~Hashable(raw_split.mode)
           \/ training_days.raised
        THEN NormalizeRaised
        ELSE ProposalReturned([proposal EXCEPT
                !.split = Some([days_per_week |-> days_per_week,
                                training_days |-> training_days.days,
                                split_type |-> split_type,
                                mode |-> mode,
                                focus |-> IF focus = "" THEN None ELSE Some(focus)])])

\* _normalize_action_proposal.  The id is a fresh uuid4 and is left out here.
NormalizeRawArgs(raw_args) ==
    IF ~Hashable(raw_args.action_type) THEN NormalizeRaised
    ELSE IF ~InTexts(raw_args.action_type, {"update_macros", "update_workout_split"})
    THEN NoProposal
    ELSE LET action_type == raw_args.action_type.text
             proposal == [action_type |-> action_type,
                          title |-> TextOr(raw_args.title, "Coach update"),
                          description |-> TextOr(raw_args.description, ""),
                          confirmation_prompt |->
                              TextOr(raw_args.confirmation_prompt,
                                     BuildDefaultActionMessage(action_type)),
                          macros |-> None,
                          split |-> None]
         IN  IF action_type = "update_macros" THEN MacrosProposal(raw_args, proposal)
             ELSE SplitProposal(raw_args, proposal)

\* The values a model hands in for a macro and for days_per_week.
MacroInputs == {ArgNone, ArgNum(-50), ArgNum(0), ArgNum(1495), ArgNum(1505), ArgNum(100000),
                ArgNum(100004), ArgStr("150"), ArgStr("1e5"), ArgStr("lots"), ArgBool(TRUE), ArgNaN,
                ArgInfinity, ArgList(<<>>)}
DaysPerWeekInputs == {ArgNone, ArgNum(0), ArgNum(4), ArgNum(10), ArgNum(20), ArgNum(45), ArgNum(70),
                      ArgNum(90), ArgStr(" 4 "), ArgStr("four"), ArgBool(TRUE), ArgStr("inf")}
TrainingDaysInputs ==
    {ArgNone, ArgList(<<>>), ArgNum(50), ArgStr(""),
     ArgStr("Monday"),
     ArgList(<<ArgStr("MONDAY "), ArgStr("monday"), ArgStr(" friday")>>),
     ArgList(<<ArgStr("Sunday"), ArgStr("Funday"), ArgNum(30), ArgStr("saturday")>>),
     ArgList(<<ArgStr("sunday"), ArgStr("saturday"), ArgStr("friday"), ArgStr("thursday"),
             ArgStr("wednesday"), ArgStr("tuesday"), ArgStr("monday"), ArgStr("sunday")>>)}
SplitTypeInputs == {ArgNone, ArgStr("arnold"), ArgStr("bro"), ArgList(<<>>)}
ModeInputs == {ArgNone, ArgStr("custom"), ArgStr("auto")}
FocusInputs == {ArgNone, ArgStr(" legs ")}
TitleInputs == {ArgNone, ArgStr("  "), ArgStr(" Leaner cut ")}

NoMacroValues == [k \in MacroKeys |-> ArgNone]
NoSplitValues == [days_per_week |-> ArgNone, split_type |-> ArgNone, mode |-> ArgNone,
                  training_days |-> ArgNone, focus |-> ArgNone]
RawArgs(action_type, title, macros, macro_values, split, split_values) ==
    [action_type |-> action_type, title |-> title, description |-> ArgNone,
     confirmation_prompt |-> ArgNone, macros |-> macros, macro_values |-> macro_values,
     split |-> split, split_values |-> split_values]

\* The argument objects of the model: other action types, macro objects with
\* every pair of calories and protein values, and split objects.
RawArgsInputs ==
    {RawArgs(action_type, ArgNone, ArgNone, NoMacroValues, ArgNone, NoSplitValues) :
        action_type \in {ArgNone, ArgStr("delete_account"), ArgNum(10), ArgList(<<>>),
                         ArgStr("update_macros"), ArgStr("update_workout_split")}}
    \cup {RawArgs(ArgStr("update_macros"), title, macros, NoMacroValues, ArgNone, NoSplitValues) :
        title \in TitleInputs, macros \in {ArgStr("high protein"), ArgList(<<>>)}}
    \cup {RawArgs(ArgStr("update_macros"), title, ArgDict,
                  [k \in MacroKeys |-> CASE k = "calories" -> calories
                                         [] k = "protein" -> protein
                                         [] k = "carbs" -> rest
                                         [] OTHER -> ArgNone],
                  ArgNone, NoSplitValues) :
        title \in TitleInputs, calories \in MacroInputs, protein \in MacroInputs,
        rest \in {ArgNone, ArgNum(2000)}}
    \cup {RawArgs(ArgStr("update_workout_split"), ArgNone, ArgNone, NoMacroValues, ArgDict,
                  [days_per_week |-> days_per_week, split_type |-> split_type,
                   mode |-> mode, training_days |-> training_days, focus |-> focus]) :
        days_per_week \in DaysPerWeekInputs, split_type \in SplitTypeInputs,
        mode \in ModeInputs, training_days \in TrainingDaysInputs, focus \in FocusInputs}

NpInit ==
    /\ npArgs = None
    /\ npResult = NoProposal

npOthers == <<ckVars, prVars, fdVars, obVars, chVars, auVars, dcVars, tpVars, lgVars, erVars, trVars, jbVars, thVars, ukVars, fsVars>>

\* One call of _normalize_action_proposal.  The function keeps nothing from
\* one call to the next, so a behaviour holds one call.
NormalizeCall(raw_args) ==
    /\ npArgs = None
    /\ npArgs' = Some(raw_args)
    /\ npResult' = NormalizeRawArgs(raw_args)
    /\ UNCHANGED npOthers

NpNext == \E raw_args \in RawArgsInputs : NormalizeCall(raw_args)

\* The handlers modelled after the coach chat, before any request.
XtIdle == AuInit /\ DcInit /\ TpInit /\ LgInit /\ ErInit /\ TrInit /\ JbInit /\ ThInit /\ UkInit /\ FsInit /\ NpInit

----------------------------------------------------------------------------
(* Specifications *)

\* Check-ins without photos, with every analysis output.
CkNext ==
    \/ SubmitCheckin(<<>>, <<>>, None)
    \/ AnalysisFails
    \/ \E ai_output \in AiOutputs, upserted \in BOOLEAN : Analysis(ai_output, upserted)
    \/ \E inserted \in BOOLEAN : InsertCheckin(inserted)

InitCheckin == CkInit /\ PrInit /\ FdInit /\ ObIdle /\ ChInit /\ XtIdle
SpecCheckin == InitCheckin /\ [][CkNext]_vars

PrNext ==
    \/ \E s \in Sessions, ex \in Exercises, reps \in RepsVals, w \in WeightVals :
          LogExercise(s, ex, reps, w)
    \/ \E r \in Requests, s \in Sessions : CsUpdateSession(r, s)
    \/ \E r \in Requests : CsReadLogs(r)
    \/ \E r \in Requests : CsLookup(r)
    \/ \E r \in Requests : CsInsert(r)
    \/ \E r \in Requests : CsReturn(r)
    \/ \E r \in Requests : CsAgain(r)

\* One server process: an `async def` handler without `await` runs to its end
\* before the event loop serves the next request.  Each request is served
\* once; a session completed again is followed under SpecRepeat.
PrNextSeq ==
    \/ \E s \in Sessions, ex \in Exercises, reps \in RepsVals, w \in WeightVals :
          LogExercise(s, ex, reps, w)
    \/ \E r \in Requests, s \in Sessions : NoOtherActive(r) /\ CsUpdateSession(r, s)
    \/ \E r \in Requests : CsReadLogs(r)
    \/ \E r \in Requests : CsLookup(r)
    \/ \E r \in Requests : CsInsert(r)
    \/ \E r \in Requests : CsReturn(r)

\* One server process, sessions with several exercises, and datastore calls
\* that may raise after the session row was updated.
CompletionNext ==
    \/ \E s \in Sessions, ex \in Exercises, w \in WeightVals :
          LogSessionExercise(s, ex, 6, w)
    \/ \E r \in Requests, s \in Sessions : NoOtherActive(r) /\ CsUpdateSession(r, s)
    \/ \E r \in Requests : CsReadLogs(r)
    \/ \E r \in Requests : CsLookup(r)
    \/ \E r \in Requests : CsLookupFails(r)
    \/ \E r \in Requests : CsInsert(r)
    \/ \E r \in Requests : CsInsertFails(r)
    \/ \E r \in Requests : CsReturn(r)

CkIdle == ckProfile = None /\ CkRest

InitPR == PrInit /\ CkIdle /\ FdInit /\ ObIdle /\ ChInit /\ XtIdle
\* Several server processes against the one datastore.
SpecPR == InitPR /\ [][PrNext]_vars
SpecPRSeq == InitPR /\ [][PrNextSeq]_vars
SpecCompletion == InitPR /\ [][CompletionNext]_vars

\* One server process, a session with several exercises and one without
\* logs, and clients that complete a session again.
RepeatNext ==
    \/ \E ex \in Exercises, w \in WeightVals : LogSessionExercise(1, ex, 6, w)
    \/ \E r \in Requests, s \in Sessions : NoOtherActive(r) /\ CsUpdateSession(r, s)
    \/ \E r \in Requests : CsReadLogsCounted(r)
    \/ \E r \in Requests : CsLookup(r)
    \/ \E r \in Requests : CsInsert(r)
    \/ \E r \in Requests : CsReturn(r)
    \/ \E r \in Requests : CsAgain(r)
SpecRepeat == InitPR /\ [][RepeatNext]_vars

FdNext ==
    \/ \E food \in UsdaFoods : UsdaFoodDetail(food)
    \/ \E food \in FsSearchFoods, detail \in FsDetailFoods : FatsecretSearchDetail(food, detail)
    \/ \E food \in FsSearchFoods : FatsecretSearchFallback(food)

InitFood == FdInit /\ CkIdle /\ PrInit /\ ObIdle /\ ChInit /\ XtIdle
SpecFood == InitFood /\ [][FdNext]_vars

ObNext ==
    \/ ConvertHeight
    \/ ConvertWeight

InitOnboarding == ObInit /\ CkIdle /\ PrInit /\ FdInit /\ ChInit /\ XtIdle
SpecOnboarding == InitOnboarding /\ [][ObNext]_vars

ChNext ==
    \/ PostBlank
    \/ \E content \in Contents, stream \in BOOLEAN : PostMessage(content, stream)
    \/ \E response \in ModResponses : ModerationDone(response)
    \/ ContextDone
    \/ HistoryDone
    \/ SummaryDone
    \/ EnsureUserDone
    \/ InsertUserDone
    \/ \E db \in DbOutcomes : Refusal(db)
    \/ RefusalStream
    \/ \E outcome \in WorkoutOutcomes, db \in DbOutcomes : WorkoutReply(outcome, db)
    \/ WorkoutStreamReturned
    \/ \E outcome \in WorkoutOutcomes, db \in DbOutcomes : StreamWorkoutResponse(outcome, db)
    \/ Gather
    \/ \E db \in DbOutcomes : ConfirmReply(db)
    \/ \E db \in DbOutcomes : StreamActionConfirmation(db)
    \/ \E db \in DbOutcomes : InferredReply(db)
    \/ \E db \in DbOutcomes : StreamInferredActionConfirmation(db)
    \/ CompletionFails
    \/ \E choice \in Choices, db \in DbOutcomes :
          \E outcome \in OutcomesOf(choice) : ModelReply(choice, outcome, db)
    \/ StreamCompletionFails
    \/ \E choice \in Choices, db \in DbOutcomes :
          \E outcome \in OutcomesOf(choice) : StreamResponse(choice, outcome, db)

InitChat == ChInit /\ CkIdle /\ PrInit /\ FdInit /\ ObIdle /\ XtIdle
\* Requests of every kind, with the failures of the datastore and of the
\* completion API.
SpecChat == InitChat /\ [][ChNext]_vars

\* The replies the model gives in a conversation about macro targets.
ThreadChoices == {choice \in Choices : choice.tool # "generate_workout" /\ choice.content # "[DONE]"}
Unflagged == [results |-> TRUE, flagged |-> FALSE, categories |-> <<>>]
ThreadNext ==
    \/ \E content \in ThreadContents : PostTurn(content)
    \/ ModerationDone(Unflagged)
    \/ ContextDone
    \/ HistoryDone
    \/ SummaryDone
    \/ EnsureUserDone
    \/ InsertUserDone
    \/ Gather
    \/ ConfirmReply("ok")
    \/ InferredReply("ok")
    \/ \E choice \in ThreadChoices : ModelReply(choice, NoWorkout, "ok")

\* A longer conversation in one thread with a client that does not stream:
\* nothing is flagged, no call fails, under every scheduling of the executor.
SpecChatThread == InitChat /\ [][ThreadNext]_vars

\* Check-ins with photos under every retention value; the profile has no
\* macros, so the analysis never changes it.
RetentionNext ==
    \/ \E photos \in PhotoInputs, photo_urls \in UrlInputs, photo_retention \in Retentions :
          SubmitCheckin(photos, photo_urls, photo_retention)
    \/ AnalysisFails
    \/ \E ai_output \in {ai \in AiOutputs : ai.macro_delta = None} : Analysis(ai_output, TRUE)
    \/ \E deleted \in BOOLEAN : DeletePhotoRow(deleted)
    \/ \E removed \in SUBSET StorageObjects : RemoveStorage(removed)
    \/ \E inserted \in BOOLEAN : InsertCheckin(inserted)

InitRetention == CkIdle /\ PrInit /\ FdInit /\ ObIdle /\ ChInit /\ XtIdle
SpecRetention == InitRetention /\ [][RetentionNext]_vars

InitBase == CkIdle /\ PrInit /\ FdInit /\ ObIdle /\ ChInit

AuNext ==
    \/ \E email \in Emails, password \in Passwords, db \in DbOutcomes :
          Register(email, password, db)
    \/ \E email \in Emails, password \in Passwords : Login(email, password)

InitAuth == InitBase /\ XtIdle
SpecAuth == InitAuth /\ [][AuNext]_vars


DcNext ==
    \/ \E user_id \in DailyUsers, hit_macros \in BOOLEAN, training_status \in TrainingStatuses,
          sleep_quality \in SleepQualities, completed \in BOOLEAN, inserted \in BOOLEAN :
          SubmitDailyCheckin(user_id, hit_macros, training_status, sleep_quality,
                             completed, inserted)
    \/ \E user_id \in DailyUsers, selected \in BOOLEAN : GetCheckinStatus(user_id, selected)
    \/ Midnight

InitDaily == InitBase /\ XtIdle
SpecDaily == InitDaily /\ [][DcNext]_vars


MaxListLen == Len(<<Bench, HeavySquat, Squat>>)

TpNext ==
    \/ \E exercises \in ExerciseLists, raised \in 0..MaxListLen : CreateTemplate(exercises, raised)
    \/ \E template_id \in TemplateIds, exercises \in ExerciseLists, raised \in 0..MaxListLen :
          UpdateTemplate(template_id, exercises, raised)
    \/ \E template_id \in TemplateIds : GetTemplateDetail(template_id)
    \/ \E template_id \in TemplateIds, deleted \in BOOLEAN : DeleteTemplate(template_id, deleted)
    \/ \E template_id \in TemplateIds, raised \in 0..MaxListLen :
          DuplicateTemplate(template_id, raised)

InitTemplates == InitBase /\ XtIdle
SpecTemplates == InitTemplates /\ [][TpNext]_vars


LgNext ==
    \/ \E schema \in Schemas, format \in ErrorFormats : DeployOn(schema, format)
    \/ \E payload \in LogPayloads, outage \in BOOLEAN : LogExerciseOnSchema(payload, outage)

InitLogging == InitBase /\ XtIdle
SpecLogging == InitLogging /\ [][LgNext]_vars


ErNext ==
    \/ \E user_id \in ErrUserIds, food_item_id \in FoodItemIds, inserted \in BOOLEAN :
          AddFavorite(user_id, food_item_id, inserted)
    \/ \E user_id \in ProfileUsers, ai_output \in MacroOutputs,
          prompted \in BOOLEAN, upserted \in BOOLEAN :
          GenerateMacros(user_id, ai_output, prompted, upserted)
    \/ \E exercises \in ExerciseLists : CreateTemplate(exercises, 0)
    \/ \E template_id \in TemplateIds, deleted \in BOOLEAN :
          DeleteTemplate(template_id, deleted)

InitErrors == InitBase /\ XtIdle
SpecErrors == InitErrors /\ [][ErNext]_vars


TrNext ==
    \E content \in ReplyContents, text \in ModelTexts : CoachReply(content, text)

InitReplies == InitBase /\ XtIdle
SpecReplies == InitReplies /\ [][TrNext]_vars

InitJobs == InitBase /\ XtIdle
\* Calls of run_prompt one after another, with every outcome of the model
\* call and of the database writes.
SpecJobs == InitJobs /\ [][JbNext]_vars

InitThreads == InitBase /\ XtIdle
\* Clients creating threads, reading them and posting to them, under their
\* own and under other users' ids.
SpecThreads == InitThreads /\ [][ThNext]_vars

InitKeys == InitBase /\ XtIdle
\* Clients writing logs and sessions and reading their adherence under the
\* same user ids, and logins tried on the users rows the helpers inserted.
SpecKeys == InitKeys /\ [][UkNext]_vars

InitTokens == InitBase /\ XtIdle
\* Calls of _get_token one after another, as the event loop runs them, while
\* the clock advances.
SpecTokens == InitTokens /\ [][FsNext]_vars

InitProposals == InitBase /\ XtIdle
\* _normalize_action_proposal applied to one argument object after another.
SpecProposals == InitProposals /\ [][NpNext]_vars

----------------------------------------------------------------------------
(* Claims about the weekly check-in *)

\* C1: whenever submit_checkin applies a macro delta, the macros it writes
\* have calories >= 1200 and protein, carbs and fats >= 0, and the profile
\* then holds exactly these macros; so after any sequence of check-ins the
\* calories written by a check-in are never below 1200.
C1_CaloriesFloor ==
    /\ \A i \in 1..Len(ckLog) :
          ckLog[i].applied =>
             /\ ckLog[i].new_macros # None
             /\ ckLog[i].new_macros[1]["calories"] >= 1200
             /\ \A k \in MacroKeys : ckLog[i].new_macros[1][k] >= 0
    /\ (ckMacro # None /\ ckMacro[1].applied) =>
          /\ ckMacro[1].new_macros[1]["calories"] >= 1200
          /\ \A k \in MacroKeys : ckMacro[1].new_macros[1][k] >= 0
          /\ ckProfile = MacrosToJson(ckMacro[1].new_macros[1])
    /\ ckWrites > 0 =>
          /\ NormalizeMacros(ckProfile) # None
          /\ NormalizeMacros(ckProfile)[1]["calories"] >= 1200
          /\ \A k \in MacroKeys : NormalizeMacros(ckProfile)[1][k] >= 0

\* A check-in applied a delta that would have taken calories below 1200
\* (even below 0) and a gram target below 0.
C1_Witness ==
    \E i \in 1..Len(ckLog) :
        /\ ckLog[i].applied
        /\ ckLog[i].delta # None
        /\ ckLog[i].delta[1]["calories"] <= -5000
        /\ ckLog[i].delta[1]["protein"] < 0
        /\ ckLog[i].new_macros[1]["calories"] = 1200
        /\ ckLog[i].new_macros[1]["protein"] = 0

----------------------------------------------------------------------------
(* Claims about session completion and PRs *)

\* C2: complete_session writes a PR row for an exercise only when no PR is
\* stored for that (user, exercise) or the session's best estimate is
\* strictly greater than every stored value; every entry of the response's
\* prs list is such a row, and every such row is in the prs list.
C2_PrOnlyWhenStrictlyGreater ==
    [][ /\ (prs' # prs =>
              /\ Len(prs') = Len(prs) + 1
              /\ SubSeq(prs', 1, Len(prs)) = prs
              /\ LET row == prs'[Len(prs')]
                 IN  /\ \A v \in StoredValues(row.user, row.ex) : row.value > v
                     /\ \E r \in Requests :
                           /\ Len(csUpdates'[r]) = Len(csUpdates[r]) + 1
                           /\ csUpdates'[r][Len(csUpdates'[r])].ex = row.ex
                           /\ csUpdates'[r][Len(csUpdates'[r])].value = row.value)
        /\ \A r \in Requests :
              Len(csUpdates'[r]) > Len(csUpdates[r]) => prs' # prs
      ]_vars

\* A request returned an empty prs list although its session had a positive
\* estimate: the lookup found a stored value and nothing was written.
C2_Witness ==
    \E r \in Requests :
        /\ csPc[r] = "done"
        /\ csPrev[r] # None
        /\ csUpdates[r] = <<>>
        /\ prs # <<>>

\* C3: for each (user, exercise, metric) the stored PR values are strictly
\* increasing in the order they were written, under every interleaving of
\* complete_session requests.
C3_PrsStrictlyIncreasing ==
    \A i \in 1..Len(prs) : \A j \in 1..Len(prs) :
        (i < j /\ prs[i].user = prs[j].user /\ prs[i].ex = prs[j].ex
               /\ prs[i].metric = prs[j].metric)
        => prs[i].value < prs[j].value

\* C17: complete_session is not atomic. The session row is updated before
\* any PR row is read or written, and a request that a failed PR lookup or
\* insert ended with HTTP 500 leaves the session completed and keeps the PR
\* rows it had already inserted.
C17_CompletionNotAtomic ==
    \A r \in Requests :
        /\ csPc[r] \in {"lookup", "insert", "error_500"} =>
              sessStatus[csSession[r]] = "completed"
        /\ csPc[r] = "error_500" =>
              \A i \in 1..Len(csUpdates[r]) :
                  \E j \in 1..Len(prs) :
                      /\ prs[j].user = SessionUser(csSession[r])
                      /\ prs[j].ex = csUpdates[r][i].ex
                      /\ prs[j].value = csUpdates[r][i].value

\* A request inserted the PR of its first exercise and failed on the second.
C17_Witness ==
    \E r \in Requests :
        /\ csPc[r] = "error_500"
        /\ csUpdates[r] # <<>>
        /\ csBest[r] # <<>>
        /\ sessStatus[csSession[r]] = "completed"
        /\ Len(prs) >= Len(csUpdates[r])

----------------------------------------------------------------------------
(* Claims about food normalisation *)

\* C9: every normalized food record, from USDA, from a FatSecret detail
\* lookup or from the FatSecret search fallback, has the same set of keys.
C9_SameKeys ==
    \A i \in 1..Len(fdResults) : \A j \in 1..Len(fdResults) :
        DOMAIN fdResults[i] = DOMAIN fdResults[j]

----------------------------------------------------------------------------
(* Claims about onboarding *)

\* |pounds * 45359237 - r * 10^(6 + dec)| doubled, for r near the quotient;
\* 45359237 = 4535 * 10^4 + 9237 keeps the operands small.
KgError2(p, r) ==
    LET diff == (p.mant * 4535 - r * Pow10(2 + p.dec)) * 10000 + p.mant * 9237
    IN  IF diff >= 0 THEN 2 * diff ELSE 0 - 2 * diff

\* C10: height is 3048 * feet + 254 * inches hundredths of a centimetre,
\* an unparseable field counting as 0 and two unparseable fields giving
\* null; weight is pounds * 0.45359237 rounded to the nearest hundredth of
\* a kilogram, for every parseable input.
C10_UnitConversion ==
    /\ (obStatus = 200 /\ Len(obInput) = 2) =>
          LET f == PyInt(obInput[1])
              i == PyInt(obInput[2])
          IN  /\ (f = None /\ i = None) => obHeight = None
              /\ (f # None /\ i # None) => obHeight = Some(3048 * f[1] + 254 * i[1])
              /\ (f # None /\ i = None) => obHeight = Some(3048 * f[1])
              /\ (f = None /\ i # None) => obHeight = Some(254 * i[1])
    /\ (obStatus = 200 /\ Len(obInput) = 1) =>
          LET p == PyFloatStr(obInput[1])
          IN  IF p = None THEN obWeight = None
              ELSE /\ obWeight # None
                   /\ KgError2(p[1], obWeight[1]) <= Pow10(6 + p[1].dec)

\* A height from feet alone (inches unparseable) and a weight that is
\* rounded up: 1.5 lb = 0.680388555 kg -> 0.68, 15 lb = 6.80388555 -> 6.80,
\* 5.5 lb = 2.494758 kg -> 2.49, 55 lb = 24.9475 -> 24.95 (up).
C10_Witness ==
    \/ obStatus = 200 /\ obInput = <<<<"5">>, <<"x">>>> /\ obHeight = Some(15240)
    \/ obStatus = 200 /\ obInput = <<<<"5", "5">>>> /\ obWeight = Some(2495)

----------------------------------------------------------------------------
(* Claims about the coach chat *)

\* The fetched rows with a user or assistant role, as role/content pairs.
FetchedHistory ==
    LET rows == chRows[1]
        idx == {i \in 1..Len(rows) : rows[i].role = "user" \/ rows[i].role = "assistant"}
    IN  [i \in 1..Cardinality(idx) |->
            LET k == CHOOSE k \in idx : Cardinality({j \in idx : j <= k}) = i
            IN  [role |-> rows[k].role, content |-> rows[k].content]]

\* The request has built the history it passes on.
HistoryBuilt ==
    chPc \in {"confirm", "inferred", "model", "stream_confirm", "stream_inferred",
              "stream_model"}

\* C4: the history passed to the model is the fetched user/assistant history
\* with at most one element removed: the last one, and only when it is a user
\* message whose content equals the incoming message.  No earlier copy of the
\* incoming message and no assistant message is removed.
C4_OnlyTrailingEchoRemoved ==
    HistoryBuilt =>
        LET fetched == FetchedHistory
            n == Len(fetched)
        IN  /\ Len(chHistory) \in {n, n - 1}
            /\ \A i \in 1..Len(chHistory) : chHistory[i] = fetched[i]
            /\ Len(chHistory) = n - 1 =>
                  /\ n > 0
                  /\ fetched[n].role = "user"
                  /\ fetched[n].content = chContent

\* The trailing echo was removed while an earlier copy of the same message and
\* an assistant message stayed.
C4_Witness ==
    /\ HistoryBuilt
    /\ Len(chHistory) = Len(FetchedHistory) - 1
    /\ \E i \in 1..Len(chHistory) :
          chHistory[i].role = "user" /\ chHistory[i].content = chContent
    /\ \E i \in 1..Len(chHistory) : chHistory[i].role = "assistant"

\* C5: whenever a request has stored an assistant message, the user message
\* of the same request is already stored, earlier in the thread, under every
\* scheduling of the executor.
C5_UserMessageStoredFirst ==
    \A i \in 1..Len(chMsgs) :
        chMsgs[i].role = "assistant" =>
            \E j \in 1..(i - 1) :
                chMsgs[j].role = "user" /\ chMsgs[j].req = chMsgs[i].req

\* C6: a streaming response that has ended holds exactly one [DONE] event,
\* and it is the last event.
C6_StreamEndsWithOneDone ==
    chStreamState = "closed" =>
        /\ Len(chEvents) > 0
        /\ chEvents[Len(chEvents)].data = "[DONE]"
        /\ \A i \in 1..(Len(chEvents) - 1) : chEvents[i].data # "[DONE]"

\* Moderation has flagged the message of the current request.
Flagged == chFlags # None /\ chFlags[1] # <<>>

\* The assistant rows the current request has stored.
OwnAssistantRows ==
    {i \in 1..Len(chMsgs) : chMsgs[i].role = "assistant" /\ chMsgs[i].req = chN}

ReplyUnderWay == chN > 0 /\ chPc # "await_moderation" /\ chResp.status # 400

\* The context, history and summary futures of the current request hold a
\* result.
FetchesDone == chCtx /\ chSum /\ chRows # None

\* C19 as stated: all four fetches (moderation, context, history, summary)
\* are joined before any reply is produced or any assistant message is
\* stored, on every path.
C19_AllFetchesJoinedFirst ==
    (ReplyUnderWay \/ OwnAssistantRows # {}) => (chFlags # None /\ FetchesDone)

\* C19: the moderation result is awaited before any reply is produced or any
\* assistant message is stored, on every path; the context, history and
\* summary fetches are joined before the action confirmation and model
\* reply paths proceed, while the refusal and workout request paths answer
\* without joining them.
C19_ModerationJoinedFirst ==
    /\ chPc = "await_moderation" =>
          /\ OwnAssistantRows = {}
          /\ chResp = NoResponse
          /\ chEvents = <<>>
    /\ ReplyUnderWay =>
          /\ chFlags # None
          /\ (~ShortCircuit(chFlags[1]) /\ ~IsWorkoutRequest(chContent)) => FetchesDone

\* A refusal was stored and returned while the context fetch was still
\* running or queued.
C19_Witness ==
    /\ chPc = "done"
    /\ chFlags # None
    /\ ShortCircuit(chFlags[1])
    /\ OwnAssistantRows # {}
    /\ chResp.status = 200
    /\ ~chCtx

\* The stored assistant rows that carry an action proposal.
ProposalRows ==
    {i \in 1..Len(chMsgs) :
        /\ chMsgs[i].role = "assistant"
        /\ chMsgs[i].metadata # None
        /\ chMsgs[i].metadata[1].coach_action_proposal # None}

\* C8: a stored proposal is matched by a confirmation only when the
\* confirming message is the next user message after the assistant message
\* that carried it, that is the message of the request that follows.
C8_MatchedOnlyByNextMessage ==
    chPc \in {"confirm", "stream_confirm"} =>
        /\ ProposalRows # {}
        /\ LET latest == CHOOSE i \in ProposalRows : \A j \in ProposalRows : j <= i
           IN  chMsgs[latest].req = chN - 1

----------------------------------------------------------------------------
(* Claims about accounts *)

\* C11: after register(email, password) has returned user_id U, every
\* login(email, password) returns status ok with that same user_id U,
\* whatever other registrations were made in between.
C11_LoginReturnsRegisteredId ==
    auResp.op = "login" =>
        \A i \in DOMAIN auUsers :
            (/\ auUsers[i].email = auResp.email
             /\ auUsers[i].hashed_password = Sha256Hex(auResp.password)) =>
                /\ auResp.status = 200
                /\ auResp.user_id = Some(auUsers[i].id)

----------------------------------------------------------------------------
(* Claims about photo retention and the macro update of the weekly check-in *)

\* The usable urls a request submits in `photos` and in `photo_urls`.
SubmittedPhotoUrls == ItemUrls(ExtractPhotoItems(ckReq.photos, DateValue))
SubmittedFallbackUrls == ExtractPhotoUrls(ckReq.photo_urls)
\* The photos the handler works on: those of `photos`, and those of
\* `photo_urls` only when `photos` holds no usable item.
EffectiveUrls ==
    IF SubmittedPhotoUrls # <<>> THEN SubmittedPhotoUrls ELSE SubmittedFallbackUrls
Range(seq) == {seq[i] : i \in 1..Len(seq)}
LastCheckin == ckLog[Len(ckLog)]
CheckinComplete == ckPc = "idle" /\ ckStatus = 200
KeepRequested == ckReq.photo_retention \in {None, Some("store"), Some("archive")}
DeleteRequested == ckReq.photo_retention = Some("delete_after_scan")

\* C12 as stated: with delete_after_scan every submitted photo is gone
\* (row and object) once the check-in is complete, deletions come only
\* after the analysis has returned and the row has photos = []; with store,
\* a missing or an unrecognised value nothing is deleted and the row holds
\* every submitted photo.
C12_SubmittedPhotosDeletedOrStored ==
    /\ ckDeletes # <<>> => ckMacro # None
    /\ (CheckinComplete /\ DeleteRequested) =>
          /\ LastCheckin.photos = <<>>
          /\ \A u \in Range(SubmittedPhotoUrls) \cup Range(SubmittedFallbackUrls) :
                /\ u \notin ckPhotoRows
                /\ ExtractStoragePath(u) # None => ExtractStoragePath(u)[1] \notin ckObjects
    /\ (CheckinComplete /\ KeepRequested) =>
          /\ ckDeletes = <<>>
          /\ ItemUrls(LastCheckin.photos) = SubmittedPhotoUrls \o SubmittedFallbackUrls

\* C12, amended: with delete_after_scan the handler attempts, only after
\* the analysis has returned, to delete the row of every photo it works on
\* and their storage objects; what a successful attempt targets is gone, and
\* the row has photos = [].  With store, a missing or an unrecognised value
\* nothing is deleted and the row holds the photos the handler works on.
C12_RetentionPolicy ==
    /\ [](/\ ckDeletes # <<>> => (ckMacro # None /\ ~KeepRequested)
          /\ (CheckinComplete /\ DeleteRequested) =>
                /\ LastCheckin.photos = <<>>
                /\ \A u \in Range(EffectiveUrls) :
                      \E i \in 1..Len(ckDeletes) :
                          /\ ckDeletes[i].target = u
                          /\ ckDeletes[i].ok => u \notin ckPhotoRows
                /\ \A u \in Range(EffectiveUrls) :
                      ExtractStoragePath(u) # None =>
                          \E i \in 1..Len(ckDeletes) :
                              /\ ckDeletes[i].target = "storage"
                              /\ ckDeletes[i].ok => ExtractStoragePath(u)[1] \notin ckObjects
          /\ (CheckinComplete /\ KeepRequested) =>
                /\ ckDeletes = <<>>
                /\ ItemUrls(LastCheckin.photos) = EffectiveUrls)
    /\ [][KeepRequested' => (ckPhotoRows' = ckPhotoRows /\ ckObjects' = ckObjects)]_vars

\* A complete delete_after_scan check-in with two photos whose rows and
\* object are gone.
C12_Witness ==
    /\ CheckinComplete /\ DeleteRequested
    /\ Len(EffectiveUrls) > 2
    /\ UrlA \notin ckPhotoRows /\ UrlX \notin ckPhotoRows
    /\ "u1/a.jpg" \notin ckObjects
    /\ LastCheckin.photos = <<>>

\* C15: a deletion that raises during a delete_after_scan check-in never
\* ends the request: every remaining deletion is attempted, and the request
\* ends with the insert of the check-in row, status complete when the
\* insert succeeds.
C15_CleanupIsBestEffort ==
    /\ ckStatus = 500 =>
          ckDetail \in {"run_prompt", "profiles upsert", "weekly_checkins insert"}
    /\ (ckDeletes # <<>> /\ ckPc # "idle") => ckStatus = 0
    /\ (ckDeletes # <<>> /\ ckPc \in {"insert", "idle"}) =>
          /\ SubSeq([i \in 1..Len(ckDeletes) |-> ckDeletes[i].target], 1, Len(PromptUrls))
                = PromptUrls
          /\ StoragePaths(PromptUrls) # {} =>
                /\ Len(ckDeletes) = Len(PromptUrls) + 1
                /\ ckDeletes[Len(ckDeletes)].target = "storage"
    /\ (ckDeletes # <<>> /\ ckPc = "idle") =>
          \/ ckStatus = 200 /\ Len(ckLog) > 0 /\ LastCheckin.photos = <<>>
          \/ ckStatus = 500 /\ ckDetail = "weekly_checkins insert"

\* A complete check-in whose first row deletion and whose storage removal
\* raised, with a later row deletion that was still made.
C15_Witness ==
    /\ CheckinComplete
    /\ Len(ckDeletes) = 3
    /\ ~ckDeletes[1].ok /\ ckDeletes[2].ok /\ ~ckDeletes[3].ok
    /\ ckDeletes[3].target = "storage"

\* C20: the profile's macros are written exactly by the check-ins whose
\* result reports applied = true, and the value written is new_macros; a
\* check-in whose analysis gives no update, or whose profile has no complete
\* macros, leaves the profile alone and goes on to store the check-in with
\* applied = false.
C20_ProfileWrittenIffApplied ==
    /\ ckPc = "idle" =>
          ckWrites = Cardinality({i \in 1..Len(ckLog) : ckLog[i].applied})
    /\ (CheckinComplete /\ LastCheckin.applied) =>
          ckProfile = MacrosToJson(LastCheckin.new_macros[1])
    /\ (ckPc = "idle" /\ ckMacro # None /\ ~ckMacro[1].applied) =>
          \/ CheckinComplete /\ ~LastCheckin.applied
          \/ ckStatus = 500 /\ ckDetail = "weekly_checkins insert"

----------------------------------------------------------------------------
(* Claims about the daily check-in *)

\* C13: once submit_daily_checkin has returned streak_saved = true for a
\* user, get_checkin_status for that user on the same UTC date returns
\* completed = true.
C13_SavedStreakIsCompleted ==
    (dcResp.op = "status" /\ <<dcResp.user_id, dcResp.date>> \in dcSaved) =>
        dcResp.completed

----------------------------------------------------------------------------
(* Claims about workout templates *)

\* What get_template_detail is to return for a list e0..e(n-1): the same
\* names in the same order, positions 0..n-1, missing numbers as 0.
ExpectedExercises(exercises) ==
    [i \in 1..Len(exercises) |->
        [name |-> exercises[i].name, position |-> i - 1,
         sets |-> IF exercises[i].sets = None THEN 0 ELSE exercises[i].sets[1],
         reps |-> IF exercises[i].reps = None THEN 0 ELSE exercises[i].reps[1],
         rest_seconds |-> IF exercises[i].rest_seconds = None THEN 0
                          ELSE exercises[i].rest_seconds[1]]]
ReturnedExercises ==
    [i \in 1..Len(tpResp.exercises) |->
        [name |-> tpResp.exercises[i].name, position |-> tpResp.exercises[i].position,
         sets |-> tpResp.exercises[i].sets, reps |-> tpResp.exercises[i].reps,
         rest_seconds |-> tpResp.exercises[i].rest_seconds]]

\* C14: after create_template or update_template with exercises
\* e0..e(n-1), get_template_detail returns exactly those n exercises in that
\* order, with positions 0..n-1 and the given sets, reps and rest (missing
\* ones as 0) and nothing of an earlier list; a duplicate has the same list.
C14_TemplateIsOrderedList ==
    (/\ tpResp.op = "detail" /\ tpResp.status = 200
     /\ tpGiven[tpResp.template_id].by # "") =>
        ReturnedExercises = ExpectedExercises(tpGiven[tpResp.template_id].exercises)

\* The detail of the second template, whose three exercises were given by
\* an update or copied by a duplicate; the second one had no rest_seconds.
C14_Witness ==
    /\ tpResp.op = "detail" /\ tpResp.status = 200
    /\ tpGiven[tpResp.template_id].by \in {"update", "duplicate"}
    /\ Len(tpResp.exercises) = 3
    /\ tpResp.exercises[2].name = "Squat" /\ tpResp.exercises[2].rest_seconds = 0
    /\ tpResp.template_id = 2

----------------------------------------------------------------------------
(* Claims about exercise logging *)

\* C16: on every older schema (exercise_logs without duration_minutes,
\* exercise_sets missing, or exercise_sets without any subset of
\* duration_seconds, is_warmup and set_index) log_exercise returns a log_id:
\* the log row is stored, with the cardio minutes in reps when the column is
\* missing, and the set row is stored with the columns the table has, or
\* skipped when the table is missing; any other error gives HTTP 500.
C16_OlderSchemasSupported ==
    lgResp.status # 0 =>
        IF lgResp.detail = OtherMessage THEN lgResp.status = 500
        ELSE /\ lgResp.status = 200
             /\ lgResp.log_id = Some(Len(lgLogs))
             /\ (lgLogs[Len(lgLogs)].duration_minutes # None) = lgSchema.logs_duration
             /\ (~lgSchema.logs_duration /\ lgResp.payload.duration_minutes # None) =>
                   lgLogs[Len(lgLogs)].reps = lgResp.payload.duration_minutes[1]
             /\ IF lgSchema.sets_table
                THEN \E i \in DOMAIN lgSets :
                        /\ lgSets[i].exercise_log_id = Len(lgLogs)
                        /\ lgSets[i].columns = SetColumns \ lgSchema.sets_missing
                ELSE \A i \in DOMAIN lgSets : lgSets[i].exercise_log_id # Len(lgLogs)

----------------------------------------------------------------------------
(* Claims about the HTTP errors of the handlers *)

\* C18: an HTTPException raised deliberately inside a handler (400 in
\* add_favorite, 404 in delete_template and generate_macros, 502 in
\* generate_macros) reaches the client with its status and detail; only
\* another exception becomes HTTP 500 with the exception text as detail.
C18_DeliberateErrorsReachClient ==
    /\ erResp.raised # None =>
          IF erResp.raised[1].http
          THEN /\ erResp.status = erResp.raised[1].status_code
               /\ erResp.detail = erResp.raised[1].detail
          ELSE /\ erResp.status = 500
               /\ erResp.detail = erResp.raised[1].detail
    /\ (tpResp.op = "delete" /\ tpResp.status # 200) =>
          \/ tpResp.status = 404 /\ tpResp.detail = "Template not found"
          \/ tpResp.status = 500 /\ tpResp.detail = "delete failed"

----------------------------------------------------------------------------
(* Claims about the length of the coach's replies *)

\* C21: a reply derived from the model or from a tool message has at most
\* 120 words in short mode and at most 250 words when the user asked for a
\* detailed answer, whatever text was produced.
C21_ReplyWithinWordLimit ==
    Len(trReply) <= IF WantsDetailedReply(trReq.content) THEN 250 ELSE 120

\* A text of more than 120 words in fewer than five sentences was cut to
\* exactly 120 words in short mode.
C21_Witness ==
    /\ trN > 0
    /\ ~WantsDetailedReply(trReq.content)
    /\ Len(trReq.text) > 120
    /\ Len(trReply) = 120

----------------------------------------------------------------------------
(* Claims about confirming an action proposal *)

\* The proposal an assistant row stores in its metadata.
StoredProposal(i) == chMsgs[i].metadata[1].coach_action_proposal[1]

\* The stored assistant rows written by a confirmation: their text is the
\* execution reply of the proposal they carry.
EmissionRows ==
    {i \in ProposalRows :
        chMsgs[i].content = TrimCoachReply(BuildActionExecutionReply(StoredProposal(i)),
                                           MAX_COACH_WORDS_SHORT, 2)}

\* The stored assistant rows of the replies that proposed an action.
ProposingRows == ProposalRows \ EmissionRows

\* C22: each action proposal is confirmed at most once: between two
\* confirmations that emitted a coach_action in one thread, and that follow a
\* proposing assistant message, there is a new proposing assistant message.
C22_ProposalConfirmedAtMostOnce ==
    \A i, j \in EmissionRows :
        (i < j /\ \E k \in ProposingRows : k < i)
            => \E k \in ProposingRows : i < k /\ k < j

\* C23: the coach_action returned to a confirmation that matched a stored
\* proposal is that stored proposal: same id, same action_type, same values.
C23_ConfirmedActionIsStoredProposal ==
    (/\ chPc = "done"
     /\ chResp.status = 200
     /\ chResp.coach_action # None
     /\ IsActionConfirmation(chContent)
     /\ \E k \in ProposalRows : chMsgs[k].req < chN)
        => \E k \in ProposalRows :
              /\ chMsgs[k].req < chN
              /\ StoredProposal(k) = chResp.coach_action[1]


----------------------------------------------------------------------------
(* Claims about the ai_jobs rows of run_prompt *)

\* C24: every ai_jobs row that run_prompt created has, once run_prompt has
\* returned or raised, moved exactly once from running to completed (with the
\* output) or to failed (with the error), and run_prompt has returned the
\* output exactly when its job ended completed.
C24_JobsEndExactlyOnce ==
    /\ \A id \in 1..Len(jbJobs) :
          /\ jbJobs[id].status \in {"completed", "failed"}
          /\ Len(jbUpdates[id]) = 1
          /\ jbJobs[id].status = "failed" => jbJobs[id].error # None
    /\ jbResp.job # 0 =>
          (jbResp.kind = "returned" <=>
              (/\ jbJobs[jbResp.job].status = "completed"
               /\ jbJobs[jbResp.job].output = jbResp.output))


----------------------------------------------------------------------------
(* Claims about access to a chat thread *)

\* The thread of the last request exists and belongs to the normalized
\* requesting user.
OwnThreadRequested ==
    /\ thResp.thread_id \in 1..Len(thThreads)
    /\ thThreads[thResp.thread_id].user_id = ChatNormalizeUserId(thResp.user_id)

----------------------------------------------------------------------------
(* Claims about implicitly created users and the stored key of a user *)

\* C26: a login with the email of a users row that a get-or-create helper
\* inserted is answered 401, whatever the password.
C26_ImplicitUsersCannotLogIn ==
    (/\ auResp.op = "login"
     /\ \E i \in DOMAIN auUsers : auUsers[i].email = auResp.email)
        => auResp.status = 401

\* C27: macro_adherence asked with a user_id finds the nutrition log that
\* log_manual_item stored for the same client-supplied user_id.
C27_SameKeyInEveryRouter ==
    (/\ ukResp.op = "macro_adherence"
     /\ \E i \in DOMAIN ukLogs : ukLogs[i].user_id = NormalizeStoredUserId(ukResp.user_id))
        => (ukResp.status = 200 /\ ukResp.found > 0)


----------------------------------------------------------------------------
(* Claims about the FatSecret token cache *)

\* The fetch that issued a token.
IssuedBy(token) == {i \in DOMAIN fsFetches : Some(fsFetches[i].access_token) = token}

\* C28: _get_token serves a token from the cache only before the expiry of
\* the fetch that issued it, which is the time of that fetch plus
\* max(expires_in - 30, 0), so never a token that lives 30 seconds or less;
\* and the token and the expiry in the cache are those of one fetch.
C28_CachedTokenNotExpired ==
    /\ fsResp.cached =>
          \E i \in IssuedBy(fsResp.token) :
              /\ fsFetches[i].expires_in > 30
              /\ fsResp.at < fsFetches[i].at + (fsFetches[i].expires_in - 30)
    /\ fsCache.access_token # None =>
          \E i \in IssuedBy(fsCache.access_token) :
              fsCache.expires_at =
                  fsFetches[i].at + (IF fsFetches[i].expires_in > 30
                                     THEN fsFetches[i].expires_in - 30 ELSE 0)

\* A token that lives 33 seconds was served from the cache two seconds after
\* its fetch, after an earlier token of 30 seconds had not been.
C28_Witness ==
    /\ fsResp.cached
    /\ \E i \in IssuedBy(fsResp.token) :
          /\ fsFetches[i].expires_in = 33
          /\ fsResp.at = fsFetches[i].at + 2
          /\ i > 1
          /\ fsFetches[i - 1].expires_in = 30


----------------------------------------------------------------------------
(* Claims about completing a session again *)

\* Request r runs on a session that another request has completed, and it
\* read the same number of exercise logs as that one: no log was added.
\* While r is running the other request is the earlier one.
CompletedBefore(r) ==
    \E q \in Requests \ {r} :
        /\ csPc[q] = "done"
        /\ csSession[q] = csSession[r]
        /\ csLogged[q] = csLogged[r]

\* C29: a complete_session on a session that was completed before, with no
\* exercise log added in between, inserts no PR row and returns an empty prs
\* list, whatever the earlier call wrote.
C29_CompletionIdempotent ==
    /\ [](\A r \in Requests :
            (csPc[r] \in {"lookup", "insert"} /\ CompletedBefore(r))
                => csUpdates[r] = <<>>)
    /\ [][\A r \in Requests :
            (csPc[r] \in {"lookup", "insert"} /\ CompletedBefore(r))
                => (prs' = prs /\ csUpdates'[r] = <<>>)]_vars

\* A session of two exercises was completed by one request, which wrote two
\* PR rows, and completed again by another, which returned an empty list.
C29_Witness ==
    \E r \in Requests :
        /\ csPc[r] = "done"
        /\ CompletedBefore(r)
        /\ csUpdates[r] = <<>>
        /\ \E q \in Requests \ {r} :
              csPc[q] = "done" /\ csSession[q] = csSession[r] /\ Len(csUpdates[q]) = 2

----------------------------------------------------------------------------
(* Claims about the proposals _normalize_action_proposal returns *)

Distinct(seq) == \A i, j \in DOMAIN seq : i # j => seq[i] # seq[j]

\* C30: every proposal _normalize_action_proposal returns has action_type
\* update_macros or update_workout_split; an update_macros proposal has at
\* least one macro and every macro is between 0 and 10000; an
\* update_workout_split proposal has days_per_week between 2 and 7, a
\* split_type and a mode of the allowed sets, and as training_days exactly
\* days_per_week distinct weekday names.
C30_ProposalsWellFormed ==
    npResult.proposal # None =>
        LET proposal == npResult.proposal[1]
        IN  /\ proposal.action_type \in {"update_macros", "update_workout_split"}
            /\ proposal.action_type = "update_macros" =>
                  /\ proposal.macros # None /\ proposal.split = None
                  /\ DOMAIN proposal.macros[1] # {}
                  /\ DOMAIN proposal.macros[1] \subseteq MacroKeys
                  /\ \A k \in DOMAIN proposal.macros[1] :
                        proposal.macros[1][k] \in 0..10000
            /\ proposal.action_type = "update_workout_split" =>
                  /\ proposal.split # None /\ proposal.macros = None
                  /\ LET split == proposal.split[1]
                     IN  /\ split.days_per_week \in 2..7
                         /\ split.split_type \in VALID_SPLIT_TYPES
                         /\ split.mode \in VALID_SPLIT_MODES
                         /\ Len(split.training_days) = split.days_per_week
                         /\ Distinct(split.training_days)
                         /\ \A i \in DOMAIN split.training_days :
                               InSeq(split.training_days[i], WEEKDAY_ORDER)

\* A split proposal came back for days_per_week 9 and training days given
\* with duplicates and in other spellings.
C30_Witness ==
    /\ npResult.proposal # None
    /\ npArgs[1].split_values.days_per_week = ArgNum(90)
    /\ npArgs[1].split_values.training_days =
          ArgList(<<ArgStr("MONDAY "), ArgStr("monday"), ArgStr(" friday")>>)
    /\ npResult.proposal[1].split[1].days_per_week = 7
    /\ npResult.proposal[1].split[1].training_days[2] = "Friday"

====
